---- MODULE Spec2Model ----
(***************************************************************************)
(* A model of .github/workflows/ai-log-work-py/changelog.py: the changelog *)
(* generator (AIChangelogGenerator).                                       *)
(*                                                                         *)
(* Text is modelled as a sequence of tokens.  Each token is a fragment of  *)
(* the real text, and a text is the concatenation of its tokens, so that   *)
(* the regular expressions and the JSON parser of the source are modelled  *)
(* by what they do on the concatenation.                                   *)
(***************************************************************************)
EXTENDS Integers, Sequences, FiniteSets, TLC

VARIABLES
    pc,           \* position of run(): "start", "enumerating", "processing" (top of a
                  \* loop turn), "in_post" (waiting in requests.post), "in_patch"
                  \* (waiting in requests.patch), "summarized"
                  \* (print_realtime_summary returned),
                  \* "sleeping" (in time.sleep), "single", "done"
    params,       \* the arguments of run(): version, release_id, tag, target, event_name
    mode,         \* the RunMode chosen by validate_params ("" before)
    all_releases, \* the listing get_all_releases returned
    idx,          \* the turns of the loop of run_batch_processing that are over
    turn,         \* the answers received so far in the turn under way: <<>>, then the
                  \* history provider's, then the analysis service's too
    batch_stats,  \* the BatchStats accumulator
    outcomes,     \* per release handled: what process_single_release returned and what happened
    store,        \* the release store: the releases, newest first, each with id, tag and body
    net,          \* network activity so far: store reads, history queries, analysis calls, writes
    sleeps,       \* number of time.sleep(2) calls of the batch loop
    result,       \* the return value of run(): None before it returns
    report,       \* the final reports emitted
    fn_in,        \* input of the function under study (function specifications)
    fn_out,       \* its output
    fn_pc         \* "ready", then the steps applied

runVars == <<pc, params, mode, all_releases, idx, turn, batch_stats, outcomes, store, net,
             sleeps, result, report>>
fnVars  == <<fn_in, fn_out, fn_pc>>
vars    == <<pc, params, mode, all_releases, idx, turn, batch_stats, outcomes, store, net,
             sleeps, result, report, fn_in, fn_out, fn_pc>>

(***************************************************************************)
(* Bounds of the model.                                                    *)
(***************************************************************************)
MaxTextLen == 5      \* tokens in an analysis response
MaxCommits == 3      \* commits in a commit list given to classify
MaxHistory == 3     \* commits in the history of a repository
MaxCalls == 2        \* times one release is processed again
MaxReleases == 5     \* releases in a batch listing

(***************************************************************************)
(* Generic helpers.                                                        *)
(***************************************************************************)
SeqsUpTo(S, n) == UNION {[1..k -> S] : k \in 0..n}

\* Python's None is <<>>, a value v is <<v>>.
None == <<>>
Some(v) == <<v>>

\* The outcome of a block of code: it returns a value or raises an exception.
Ret(v) == [tag |-> "return", exc |-> "", val |-> v]
Raise(e) == [tag |-> "raise", exc |-> e, val |-> None]

(***************************************************************************)
(* Text tokens.                                                            *)
(***************************************************************************)
\* The fence of a code block: three backquote characters (a backquote cannot be
\* written in a string of this language).
FENCE == "<fence>"
JSONLABEL == "json"
WS == "\n"
JUNK == "x"

\* str.strip(): whitespace is removed at both ends.
RECURSIVE LStrip(_)
LStrip(s) == IF s # <<>> /\ Head(s) \in {WS, " "} THEN LStrip(Tail(s)) ELSE s
RECURSIVE RStrip(_)
RStrip(s) == IF s # <<>> /\ s[Len(s)] \in {WS, " "} THEN RStrip(SubSeq(s, 1, Len(s) - 1)) ELSE s
Strip(s) == RStrip(LStrip(s))

(***************************************************************************)
(* JSON documents of the analysis service.  A field of a document is       *)
(* missing, present with a value of the expected type ("ok"), or present   *)
(* with a value of another type ("bad": null or a number).                 *)
(***************************************************************************)
EmptyMap == [t \in {} |-> <<>>]
Missing(v) == [st |-> "missing", v |-> v]
Ok(v) == [st |-> "ok", v |-> v]
Bad(v) == [st |-> "bad", v |-> v]

JsonDoc(isObject, summary, highlights, categories) ==
    [isObject |-> isObject, summary |-> summary, highlights |-> highlights,
     categories |-> categories]

\* An item of a category of the analysis: importance is optional.
Item(hash, message, importance) == [hash |-> hash, message |-> message, importance |-> importance]

SampleCategories ==
    [t \in {"FIX", "FEATURE"} |->
        IF t = "FIX" THEN <<Item(<<"a1">>, <<"bug">>, None), Item(<<"a2">>, <<"crash">>, Some(3))>>
        ELSE <<Item(<<"a3">>, <<"add">>, Some(2))>>]

DOC_EMPTY == "{}"
DOC_ARRAY == "[]"
DOC_SUMMARY == "{\"summary\":\"ok\"}"
DOC_NULLSUMMARY == "{\"summary\":null}"
DOC_BADHIGHLIGHTS == "{\"highlights\":5}"
DOC_BADCATEGORIES == "{\"categories\":5}"
DOC_FULL == "{\"summary\":\"s\",\"highlights\":[\"h\"],\"categories\":{\"FIX\":[{\"hash\":\"a1\",\"message\":\"bug\"},{\"hash\":\"a2\",\"message\":\"crash\",\"importance\":3}],\"FEATURE\":[{\"hash\":\"a3\",\"message\":\"add\",\"importance\":2}]}}"

\* Items of equal importance in FIX, and a category the generator does not list.
DOC_TIES == "{\"summary\":\"s\",\"highlights\":[\"h\"],\"categories\":{\"FIX\":[{\"hash\":\"a1\",\"message\":\"bug\"},{\"hash\":\"a2\",\"message\":\"crash\",\"importance\":3},{\"hash\":\"a3\",\"message\":\"leak\",\"importance\":1},{\"hash\":\"a4\",\"message\":\"typo\",\"importance\":3}],\"PERFORMANCE\":[{\"hash\":\"a5\",\"message\":\"fast\",\"importance\":2}]}}"

DocTokens == {DOC_TIES, DOC_EMPTY, DOC_ARRAY, DOC_SUMMARY, DOC_NULLSUMMARY, DOC_BADHIGHLIGHTS,
              DOC_BADCATEGORIES, DOC_FULL}

\* The value json.loads gives for a document token.
DocOf(tok) ==
    CASE tok = DOC_EMPTY -> JsonDoc(TRUE, Missing(""), Missing(<<>>), Missing(EmptyMap))
      [] tok = DOC_ARRAY -> JsonDoc(FALSE, Missing(""), Missing(<<>>), Missing(EmptyMap))
      [] tok = DOC_SUMMARY -> JsonDoc(TRUE, Ok("ok"), Missing(<<>>), Missing(EmptyMap))
      [] tok = DOC_NULLSUMMARY -> JsonDoc(TRUE, Bad(""), Missing(<<>>), Missing(EmptyMap))
      [] tok = DOC_BADHIGHLIGHTS -> JsonDoc(TRUE, Missing(""), Bad(<<>>), Missing(EmptyMap))
      [] tok = DOC_BADCATEGORIES -> JsonDoc(TRUE, Missing(""), Missing(<<>>), Bad(EmptyMap))
      [] tok = DOC_TIES ->
            JsonDoc(TRUE, Ok("s"), Ok(<<"h">>),
                Ok([t \in {"FIX", "PERFORMANCE"} |->
                       IF t = "FIX"
                       THEN <<Item(<<"a1">>, <<"bug">>, None), Item(<<"a2">>, <<"crash">>, Some(3)),
                              Item(<<"a3">>, <<"leak">>, Some(1)), Item(<<"a4">>, <<"typo">>, Some(3))>>
                       ELSE <<Item(<<"a5">>, <<"fast">>, Some(2))>>]))
      [] OTHER -> JsonDoc(TRUE, Ok("s"), Ok(<<"h">>), Ok(SampleCategories))

\* json.loads(text): leading and trailing whitespace is allowed; anything but
\* exactly one document raises JSONDecodeError (ok = FALSE).
json_loads(text) ==
    LET s == Strip(text)
    IN IF Len(s) = 1 /\ s[1] \in DocTokens
       THEN [ok |-> TRUE, doc |-> DocOf(s[1])]
       ELSE [ok |-> FALSE, doc |-> DocOf(DOC_ARRAY)]

\* dict.get(key, default)
Get(field, default) == IF field.st = "missing" THEN Ok(default) ELSE field

(***************************************************************************)
(* call_deepseek_api: the analysis call and the interpretation of its      *)
(* response.  A response of the analysis service is                        *)
(*   [kind: "exception" (requests raised) or "response", status, choices   *)
(*    (the choices field is present and not empty), content (a text)].     *)
(***************************************************************************)
DefaultSummary == "AI default summary"

Response(kind, status, choices, content) ==
    [kind |-> kind, status |-> status, choices |-> choices, content |-> content]
TextResponse(content) == Response("response", 200, TRUE, content)

\* Lines 661-671 and 690-700: ai_data.get(...) on the parsed document.  A document
\* that is not an object has no get (AttributeError); the summary is sliced for the
\* log line ([:50]), which a null or a number does not allow (TypeError).
AnalysisResultOf(ai_data) ==
    IF ~ai_data.isObject THEN Raise("AttributeError")
    ELSE IF ai_data.summary.st = "bad" THEN Raise("TypeError")
    ELSE Ret(Some([categories |-> Get(ai_data.categories, EmptyMap),
                   summary |-> Get(ai_data.summary, DefaultSummary),
                   highlights |-> Get(ai_data.highlights, <<>>)]))

\* re.search(<fence>json\s*(.*?)\s*<fence>, text, DOTALL): the leftmost fence that
\* is followed at once by the label, up to the next fence.  group(1).strip().
SearchJsonBlock(text) ==
    LET starts == {p \in 1..Len(text) - 1 :
                      /\ text[p] = FENCE /\ text[p + 1] = JSONLABEL
                      /\ \E q \in p + 2..Len(text) : text[q] = FENCE}
    IN IF starts = {} THEN [found |-> FALSE, group |-> <<>>]
       ELSE LET p == CHOOSE a \in starts : \A b \in starts : a <= b
                q == CHOOSE a \in p + 2..Len(text) :
                        text[a] = FENCE /\ \A b \in p + 2..a - 1 : text[b] # FENCE
            IN [found |-> TRUE, group |-> Strip(SubSeq(text, p + 2, q - 1))]

\* re.search(<fence>\s*(.*?)\s*<fence>, text, DOTALL): the leftmost fence, up to
\* the next fence; a label after the opening fence is part of the interior.
SearchAnyBlock(text) ==
    LET starts == {p \in 1..Len(text) :
                      text[p] = FENCE /\ \E q \in p + 1..Len(text) : text[q] = FENCE}
    IN IF starts = {} THEN [found |-> FALSE, group |-> <<>>]
       ELSE LET p == CHOOSE a \in starts : \A b \in starts : a <= b
                q == CHOOSE a \in p + 1..Len(text) :
                        text[a] = FENCE /\ \A b \in p + 1..a - 1 : text[b] # FENCE
            IN [found |-> TRUE, group |-> Strip(SubSeq(text, p + 1, q - 1))]

\* Lines 675-685: the loop over code_block_patterns stops at the first pattern
\* that matches, whether or not what it captured can be parsed.
ExtractedJson(ai_content) ==
    LET m1 == SearchJsonBlock(ai_content)
        m2 == SearchAnyBlock(ai_content)
    IN IF m1.found THEN Some(m1.group)
       ELSE IF m2.found THEN Some(m2.group)
       ELSE None

\* Lines 660 and 687-703: the document the parsing stops at, if any: the whole
\* text, else the interior of the code block found.
DocOfBlock(extracted_json) ==
    IF extracted_json # None /\ extracted_json[1] # <<>> /\ json_loads(extracted_json[1]).ok
    THEN Some(json_loads(extracted_json[1]).doc) ELSE None

ObtainedDoc(ai_content) ==
    IF json_loads(ai_content).ok THEN Some(json_loads(ai_content).doc)
    ELSE DocOfBlock(ExtractedJson(ai_content))

ResultOfDoc(doc) == IF doc = None THEN Ret(None) ELSE AnalysisResultOf(doc[1])

\* Lines 657-710: the inner try.  A value, None, or an exception that is not a
\* JSONDecodeError.
ParseAiContent(ai_content) == ResultOfDoc(ObtainedDoc(ai_content))

\* Lines 631-710: the body of the outer try.
ApiTryBody(response) ==
    IF response.kind = "exception" THEN Raise("RequestException")
    ELSE IF response.status # 200 THEN Ret(None)
    ELSE IF ~response.choices THEN Ret(None)
    ELSE IF response.content = <<>> THEN Ret(None)
    ELSE ParseAiContent(response.content)

\* Handlers that catch the exceptions of the request only.
ApiHandlersOfRequest(r) ==
    IF r.tag = "raise" /\ r.exc = "RequestException" THEN Ret(None) ELSE r

\* Lines 712-717: except requests.RequestException and except Exception, both
\* returning None.
ApiHandlers(r) == IF r.tag = "raise" THEN Ret(None) ELSE r

\* call_deepseek_api(commits), given the response the service gives.  The result
\* says whether the function returned or raised, and what: None or an AnalysisResult.
call_deepseek_api(commits, response) ==
    IF commits = <<>> THEN Ret(None)
    ELSE ApiHandlers(ApiTryBody(response))

(***************************************************************************)
(* Commits and the configuration (templates.json, loaded by _load_configs).*)
(* A subject is a sequence of words and blanks.  A pattern of the          *)
(* configuration is anchored at the start of the subject (re.match, and    *)
(* the ^ of the cleanup patterns) and is modelled by the set of first      *)
(* words, in lower case, that it accepts.                                  *)
(***************************************************************************)
CommitInfo(hash, message, body) ==
    [hash |-> hash, message |-> message, body |-> body, category |-> "OTHER", importance |-> 1]

\* The lower-case letter of every upper-case letter.
LowerCase ==
    [c \in {SubSeq("ABCDEFGHIJKLMNOPQRSTUVWXYZ", k, k) : k \in 1..26} |->
        LET k == CHOOSE k \in 1..26 : SubSeq("ABCDEFGHIJKLMNOPQRSTUVWXYZ", k, k) = c
        IN SubSeq("abcdefghijklmnopqrstuvwxyz", k, k)]

\* The lower-case form of a word, letter by letter (str.lower() on a word of
\* ASCII letters; every other character is kept). It is what re.IGNORECASE
\* compares, lines 566 and 845.
RECURSIVE Lower(_)
Lower(w) ==
    IF w = "" THEN ""
    ELSE (IF SubSeq(w, 1, 1) \in DOMAIN LowerCase THEN LowerCase[SubSeq(w, 1, 1)]
          ELSE SubSeq(w, 1, 1)) \o Lower(SubSeq(w, 2, Len(w)))

\* re.match(pattern, message, re.IGNORECASE), line 566, and the ^ of the cleanup
\* patterns, line 845: the first word is one of the pattern's, whatever the
\* case of its letters.
Matches(pattern, message) ==
    message # <<>> /\ Lower(message[1]) \in {Lower(word) : word \in pattern}

categories_order == <<"FEATURE", "FIX", "PERF", "STYLE", "REFACTOR", "DOCS", "BUILD", "OTHER">>

Range(f) == {f[x] : x \in DOMAIN f}
MinOf(S) == CHOOSE a \in S : \A b \in S : a <= b

Pat(category, pattern) == [category |-> category, pattern |-> pattern]

\* The configuration the scenarios of the specification assume: a pattern for each
\* of FEATURE, FIX and DOCS, in this priority order, and none for OTHER.
DefaultTemplates ==
    [categories |-> categories_order,
     commit_patterns |-> <<Pat("FEATURE", {"feat:"}), Pat("FIX", {"fix:"}), Pat("DOCS", {"docs:"})>>,
     cleanup_patterns |-> <<{"feat:"}, {"fix:"}, {"docs:"}>>,
     importance_icons |-> [n \in 1..3 |-> n]]

(***************************************************************************)
(* classify_commits                                                        *)
(***************************************************************************)
\* A matching that lets OTHER's own pattern take part.
CategoryOfAnyPattern(templates, commit) ==
    LET patterns == templates.commit_patterns
        clean_message == Strip(commit.message)
        hits == {k \in 1..Len(patterns) : Matches(patterns[k].pattern, clean_message)}
    IN IF hits = {} THEN "OTHER" ELSE patterns[MinOf(hits)].category

\* A matching that goes on after the first match: the last matching pattern wins.
CategoryOfLastMatch(templates, commit) ==
    LET patterns == templates.commit_patterns
        clean_message == Strip(commit.message)
        hits == {k \in 1..Len(patterns) :
                    /\ patterns[k].category # "OTHER"
                    /\ Matches(patterns[k].pattern, clean_message)}
    IN IF hits = {} THEN "OTHER"
       ELSE patterns[CHOOSE a \in hits : \A b \in hits : a >= b].category

\* Lines 559-575: the category of one commit: the first pattern, in the order of
\* commit_patterns and OTHER's own pattern left out, that matches the stripped
\* subject; OTHER when none does.
CategoryOf(templates, commit) ==
    LET patterns == templates.commit_patterns
        clean_message == Strip(commit.message)
        hits == {k \in 1..Len(patterns) :
                    /\ patterns[k].category # "OTHER"
                    /\ Matches(patterns[k].pattern, clean_message)}
    IN IF hits = {} THEN "OTHER" ELSE patterns[MinOf(hits)].category

\* A loop that keeps only the commits a pattern matched.
RECURSIVE ClassifyLoopMatchedOnly(_, _, _)
ClassifyLoopMatchedOnly(commits, classified, templates) ==
    IF commits = <<>> THEN Ret(classified)
    ELSE LET commit == Head(commits)
             category == CategoryOf(templates, commit)
         IN IF category = "OTHER" \/ category \notin DOMAIN classified
            THEN ClassifyLoopMatchedOnly(Tail(commits), classified, templates)
            ELSE ClassifyLoopMatchedOnly(Tail(commits),
                     [classified EXCEPT ![category] =
                          Append(@, [commit EXCEPT !.category = category])],
                     templates)

\* Lines 558-575: the loop; classified[category] raises KeyError for a category
\* that is no key of templates["categories"].
RECURSIVE ClassifyLoop(_, _, _)
ClassifyLoop(commits, classified, templates) ==
    IF commits = <<>> THEN Ret(classified)
    ELSE LET commit == Head(commits)
             category == CategoryOf(templates, commit)
         IN IF category \notin DOMAIN classified THEN Raise("KeyError")
            ELSE ClassifyLoop(Tail(commits),
                     [classified EXCEPT ![category] =
                          Append(@, [commit EXCEPT !.category = category])],
                     templates)

\* classify_commits(commits): a mapping from every key of templates["categories"]
\* to the commits put there, or KeyError.
classify_commits(commits, templates) ==
    ClassifyLoop(commits, [c \in Range(templates.categories) |-> <<>>], templates)

(***************************************************************************)
(* The two renderings.  A document is a record of its parts in the order   *)
(* they are written; the strings of the templates are not modelled.        *)
(***************************************************************************)
NoCommitsText == <<"no commit records">>
StaticOverview == "static overview"

\* Lines 785 and 864: the entry of the appendix for one commit.
\* An entry that also tells the number of commits the generator has counted so
\* far in self.batch_stats.total_commits.
AppendixLineCounted(commit) ==
    <<"- ">> \o commit.message \o <<" (">> \o commit.hash
        \o <<")", ToString(batch_stats.total_commits)>>

AppendixLine(commit) == <<"- ">> \o commit.message \o <<" (">> \o commit.hash \o <<")">>

RECURSIVE Flatten(_)
Flatten(ss) == IF ss = <<>> THEN <<>> ELSE Head(ss) \o Flatten(Tail(ss))

Document(kind, version, summary, highlights, sections, entries) ==
    [kind |-> kind, version |-> version, summary |-> summary, highlights |-> highlights,
     sections |-> sections,
     appendix |-> IF entries = <<>> THEN <<NoCommitsText>> ELSE entries]

\* item.get('importance', 1)
ImportanceOf(item) == IF item.importance = None THEN 1 ELSE item.importance[1]

\* sorted(items, key=importance, reverse=True): a stable sort, descending.
\* An insertion that puts an item before those of the same importance.
InsertDescBeforeEqual(sorted, item) ==
    LET before == {k \in 1..Len(sorted) : ImportanceOf(sorted[k]) <= ImportanceOf(item)}
        at == IF before = {} THEN Len(sorted) + 1 ELSE MinOf(before)
    IN SubSeq(sorted, 1, at - 1) \o <<item>> \o SubSeq(sorted, at, Len(sorted))

InsertDesc(sorted, item) ==
    LET before == {k \in 1..Len(sorted) : ImportanceOf(sorted[k]) < ImportanceOf(item)}
        at == IF before = {} THEN Len(sorted) + 1 ELSE MinOf(before)
    IN SubSeq(sorted, 1, at - 1) \o <<item>> \o SubSeq(sorted, at, Len(sorted))
RECURSIVE SortDesc(_, _)
SortDesc(items, sorted) ==
    IF items = <<>> THEN sorted ELSE SortDesc(Tail(items), InsertDesc(sorted, Head(items)))

\* importance_icons.get(str(importance), default): 0 stands for the default icon.
IconOf(templates, importance) ==
    IF importance \in DOMAIN templates.importance_icons
    THEN templates.importance_icons[importance] ELSE 0

RenderedItem(icon, message, hash) == [icon |-> icon, message |-> message, hash |-> hash]

\* Lines 763-775: the items of one category of the analysis, as rendered.
AiSection(templates, category, items) ==
    LET sorted_items == SortDesc(items, <<>>)
    IN [category |-> category,
        items |-> [k \in 1..Len(sorted_items) |->
                      RenderedItem(IconOf(templates, ImportanceOf(sorted_items[k])),
                                   sorted_items[k].message, sorted_items[k].hash)]]

\* generate_changelog_with_ai(version, ai_analysis, original_changelog, commits):
\* original_changelog is never read.  len() of highlights (line 735) and the
\* membership test on categories (line 759) raise TypeError for a value that is
\* no container; the title lookup (line 760) raises KeyError for a category the
\* configuration does not define.
generate_changelog_with_ai(version, ai_analysis, original_changelog, commits, templates) ==
    IF ai_analysis.highlights.st = "bad" THEN Raise("TypeError")
    ELSE IF ai_analysis.categories.st = "bad" THEN Raise("TypeError")
    ELSE LET cats == ai_analysis.categories.v
             shown(k) == /\ categories_order[k] \in DOMAIN cats
                         /\ cats[categories_order[k]] # <<>>
             order == SelectSeq([k \in 1..Len(categories_order) |-> k], shown)
         IN IF \E k \in Range(order) : categories_order[k] \notin Range(templates.categories)
            THEN Raise("KeyError")
            ELSE Ret(Document("ai", version, ai_analysis.summary.v, ai_analysis.highlights.v,
                     [j \in 1..Len(order) |->
                         AiSection(templates, categories_order[order[j]],
                                   cats[categories_order[order[j]]])],
                     [j \in 1..Len(commits) |-> AppendixLine(commits[j])]))

\* Lines 844-849: every cleanup pattern is applied once, in order, to the start
\* of the message; an emptied message is replaced by the subject.
RECURSIVE ApplyPrefixes(_, _)
ApplyPrefixes(prefixes, message) ==
    IF prefixes = <<>> THEN message
    ELSE ApplyPrefixes(Tail(prefixes),
             IF Matches(Head(prefixes), message) THEN LStrip(Tail(message)) ELSE message)

CleanMessage(templates, commit) ==
    LET clean_message == Strip(ApplyPrefixes(templates.cleanup_patterns, commit.message))
    IN IF clean_message = <<>> THEN commit.message ELSE clean_message

BasicSection(templates, category, commits_list) ==
    [category |-> category,
     items |-> [k \in 1..Len(commits_list) |->
                   RenderedItem(0, CleanMessage(templates, commits_list[k]), commits_list[k].hash)]]

\* generate_changelog_basic(version, classified_commits, original_changelog):
\* original_changelog is never read.  The appendix lists the commits category by
\* category, in the order of the keys of classified_commits.
generate_changelog_basic(version, classified_commits, original_changelog, templates) ==
    LET shown(k) == /\ categories_order[k] \in DOMAIN classified_commits
                    /\ classified_commits[categories_order[k]] # <<>>
        order == SelectSeq([k \in 1..Len(categories_order) |-> k], shown)
        keys == templates.categories
    IN Ret(Document("basic", version, StaticOverview, <<>>,
               [j \in 1..Len(order) |->
                   BasicSection(templates, categories_order[order[j]],
                                classified_commits[categories_order[order[j]]])],
               Flatten([k \in 1..Len(keys) |->
                   [j \in 1..Len(classified_commits[keys[k]]) |->
                       AppendixLine(classified_commits[keys[k]][j])]])))

(***************************************************************************)
(* get_git_commits.  The history provider (the git commands run by         *)
(* subprocess) is given as the answers it makes to this call:              *)
(*   tags     git tag --sort=-version:refname                              *)
(*   primary  git log <range> --no-merges                                  *)
(*   merges   git log <range>            (merge commits included)          *)
(*   single   git log -1 <version>                                         *)
(* each [ok (exit status 0), out (what it wrote: a text)].                 *)
(***************************************************************************)
PIPE == "|"

GitAnswer(ok, out) == [ok |-> ok, out |-> out]
Git(tags, primary, merges, single) ==
    [tags |-> tags, primary |-> primary, merges |-> merges, single |-> single]

\* str.split(sep): the pieces between the separators.
RECURSIVE Split(_, _)
Split(s, sep) ==
    LET at == {k \in 1..Len(s) : s[k] = sep}
    IN IF at = {} THEN <<s>>
       ELSE <<SubSeq(s, 1, MinOf(at) - 1)>> \o Split(SubSeq(s, MinOf(at) + 1, Len(s)), sep)

\* str.split(sep, 2): at most two cuts.
SplitTwice(s, sep) ==
    LET at == {k \in 1..Len(s) : s[k] = sep}
    IN IF at = {} THEN <<s>>
       ELSE LET first == MinOf(at)
                rest == SubSeq(s, first + 1, Len(s))
                at2 == {k \in 1..Len(rest) : rest[k] = sep}
            IN IF at2 = {} THEN <<SubSeq(s, 1, first - 1), rest>>
               ELSE <<SubSeq(s, 1, first - 1), SubSeq(rest, 1, MinOf(at2) - 1),
                      SubSeq(rest, MinOf(at2) + 1, Len(rest))>>

\* The number of digits that tag has from position k on, up to the first
\* character that is not a digit: what [0-9]+ takes there.
RECURSIVE DigitsFrom(_, _)
DigitsFrom(tag, k) ==
    IF k <= Len(tag)
          /\ SubSeq(tag, k, k) \in {"0", "1", "2", "3", "4", "5", "6", "7", "8", "9"}
    THEN 1 + DigitsFrom(tag, k + 1)
    ELSE 0

\* Lines 441-444: version_pattern.match(tag) for ^v?[0-9]+\.[0-9]+(\.[0-9]+)?.*$,
\* an optional v (lower case only), digits, a dot and digits again, followed
\* by anything.
VersionShaped(tag) ==
    \E start \in {IF Len(tag) > 0 /\ SubSeq(tag, 1, 1) = "v" THEN 2 ELSE 1} :
        \E major \in {DigitsFrom(tag, start)} :
            /\ major > 0
            /\ start + major <= Len(tag)
            /\ SubSeq(tag, start + major, start + major) = "."
            /\ DigitsFrom(tag, start + major + 1) > 0

\* Line 437: the lines of the tag listing, stripped, the empty ones dropped.
TagsOf(out) ==
    LET lines == Split(out, WS)
        NotBlank(line) == Strip(line) # <<>>
        kept == SelectSeq(lines, NotBlank)
    IN [j \in 1..Len(kept) |-> Strip(kept[j])[1]]

\* A resolver that looks for the version among all the tags of the listing.
LastTagOfAnyTag(version, all_tags) ==
    LET found == {k \in 1..Len(all_tags) : all_tags[k] = version}
    IN IF found # {} /\ MinOf(found) < Len(all_tags)
       THEN Some(all_tags[MinOf(found) + 1]) ELSE None

\* A resolver that never finds a previous tag.
LastTagOfNoPrevious(version, all_tags) == None

\* Lines 444-456: the tag that follows the version among the version-shaped tags.
LastTagOf(version, all_tags) ==
    LET valid_tags == SelectSeq(all_tags, VersionShaped)
        found == {k \in 1..Len(valid_tags) : valid_tags[k] = version}
    IN IF found # {} /\ MinOf(found) < Len(valid_tags)
       THEN Some(valid_tags[MinOf(found) + 1]) ELSE None

\* Lines 510-517: the commit of one line, None for a line without a pipe or
\* with nothing before the first pipe.
CommitOfParts(parts) ==
    IF Len(parts) >= 2 /\ parts[1] # <<>>
    THEN Some(CommitInfo(parts[1], Strip(parts[2]),
                         IF Len(parts) > 2 THEN Strip(parts[3]) ELSE <<>>))
    ELSE None

RECURSIVE CommitsOfLines(_)
CommitsOfLines(lines) ==
    IF lines = <<>> THEN <<>>
    ELSE CommitOfParts(SplitTwice(Head(lines), PIPE)) \o CommitsOfLines(Tail(lines))

\* Lines 505-517: commits_raw is split into lines, one commit per well-formed line.
ParseCommits(commits_raw) == CommitsOfLines(Split(commits_raw, WS))

Resolved(commits, range, last_tag, queries) ==
    [commits |-> commits, commit_range |-> range, last_tag |-> last_tag,
     commit_count |-> Len(commits), queries |-> queries]

\* A resolver without the except clauses: the exception goes to the caller.
Uncaught(exc, last_tag, queries) == Raise(exc)

\* Lines 531-536: an exception raised in the try (a git command that exits with
\* an error is a CalledProcessError) is caught and the empty list returned.
Caught(exc, last_tag, queries) == Resolved(<<>>, "git_error", last_tag, queries)

\* A resolver that goes from the range without merges to the commit at the tag.
MergesQuerySkipped(git, last_tag) ==
    IF ~git.single.ok THEN Caught("CalledProcessError", last_tag, 3)
    ELSE IF Strip(git.single.out) # <<>>
    THEN Resolved(ParseCommits(Strip(git.single.out)), "tag_commit", last_tag, 3)
    ELSE Resolved(<<>>, "empty_release", last_tag, 3)

\* Lines 491-503: the commit at the tag, then the explicit empty result.
SingleQuery(git, last_tag, queries) ==
    IF ~git.single.ok THEN Caught("CalledProcessError", last_tag, queries)
    ELSE IF Strip(git.single.out) # <<>>
    THEN Resolved(ParseCommits(Strip(git.single.out)), "tag_commit", last_tag, queries)
    ELSE Resolved(<<>>, "empty_release", last_tag, queries)

\* Lines 485-488: the same range with the merge commits, when there is a range.
MergesQuery(git, last_tag) ==
    IF last_tag = None THEN SingleQuery(git, last_tag, 3)
    ELSE IF ~git.merges.ok THEN Caught("CalledProcessError", last_tag, 3)
    ELSE IF Strip(git.merges.out) # <<>>
    THEN Resolved(ParseCommits(Strip(git.merges.out)), "range", last_tag, 3)
    ELSE SingleQuery(git, last_tag, 4)

\* Lines 459-477: the range after last_tag, or all the history of the version.
PrimaryQuery(git, last_tag) ==
    IF ~git.primary.ok THEN Caught("CalledProcessError", last_tag, 2)
    ELSE IF Strip(git.primary.out) # <<>>
    THEN Resolved(ParseCommits(Strip(git.primary.out)),
                  IF last_tag = None THEN "initial" ELSE "range", last_tag, 2)
    ELSE MergesQuery(git, last_tag)

\* get_git_commits(version): the commits, the label of the range, the count; and
\* the number of git commands run.  A failing command (CalledProcessError) is
\* caught at line 531 and gives the empty list.
get_git_commits(version, git) ==
    IF ~git.tags.ok THEN Caught("CalledProcessError", None, 1)
    ELSE PrimaryQuery(git, LastTagOf(version, TagsOf(git.tags.out)))

(***************************************************************************)
(* The release store and the steps of run().                               *)
(***************************************************************************)
TagNames == <<"v1.0", "v1.1", "v1.2", "v1.3", "v1.4", "v1.5">>

\* The body a release has before the run.
OldBody == Document("old", "", "", <<>>, <<>>, <<>>)

\* The body of a release published without notes: the store answers "body": null
\* and release_data.get('body', '') is None.
NullBody == Document("null", "", "", <<>>, <<>>, <<>>)

ReleaseData(id, tag_name, body) == [id |-> id, tag_name |-> tag_name, body |-> body]

\* update_release_changelog(release_id, changelog): one PATCH; True for status 200,
\* False for any other status and for an exception of the request.
update_release_changelog(release_id, changelog, patch) == patch = "200"

\* check_optimization_status(mode, original_changelog): (True, "") in every mode.
check_optimization_status(run_mode, original_changelog) ==
    [need_optimize |-> TRUE, processed_changelog |-> ""]

Processed(success, ai_success, error_msg, r, analysis, ai_calls, written, write_attempts) ==
    [success |-> success, ai_success |-> ai_success, error_msg |-> error_msg,
     commit_count |-> r.commit_count, commit_range |-> r.commit_range,
     queries |-> r.queries, analysis |-> analysis, ai_calls |-> ai_calls,
     written |-> written, write_attempts |-> write_attempts]

\* A publisher that tries a second time when the update is refused.
PublishStepRetrying(release_id, r, ai_success, changelog, patch) ==
    IF changelog.tag = "raise"
    THEN Processed(FALSE, FALSE, changelog.exc, r,
                   IF ai_success THEN "present" ELSE "absent", 1, None, 0)
    ELSE IF update_release_changelog(release_id, changelog.val, patch)
    THEN Processed(TRUE, ai_success, "", r,
                   IF ai_success THEN "present" ELSE "absent", 1, Some(changelog.val), 1)
    ELSE Processed(FALSE, ai_success, "", r,
                   IF ai_success THEN "present" ELSE "absent", 1, None, 2)

\* Lines 1302-1305: the update, after the document was generated or raised.
PublishStep(release_id, r, ai_success, changelog, patch) ==
    IF changelog.tag = "raise"
    THEN Processed(FALSE, FALSE, changelog.exc, r,
                   IF ai_success THEN "present" ELSE "absent", 1, None, 0)
    ELSE IF update_release_changelog(release_id, changelog.val, patch)
    THEN Processed(TRUE, ai_success, "", r,
                   IF ai_success THEN "present" ELSE "absent", 1, Some(changelog.val), 1)
    ELSE Processed(FALSE, ai_success, "", r,
                   IF ai_success THEN "present" ELSE "absent", 1, None, 1)

\* Lines 1296-1300: the document, by the analysis when there is one, by the
\* rules otherwise.
ChangelogFor(version, commits, classified, ai_analysis, templates) ==
    IF ai_analysis # None
    THEN generate_changelog_with_ai(version, ai_analysis[1], "", commits, templates)
    ELSE generate_changelog_basic(version, classified, "", templates)

\* Lines 1293-1300: the result of the analysis call decides the rendering.
GenerateStep(version, release_id, r, classified, ai_analysis, patch, templates) ==
    IF ai_analysis.tag = "raise"
    THEN Processed(FALSE, FALSE, ai_analysis.exc, r, "raised", 1, None, 0)
    ELSE PublishStep(release_id, r, ai_analysis.val # None,
             ChangelogFor(version, r.commits, classified.val, ai_analysis.val, templates),
             patch)

\* Lines 1289-1293: the classification, then the analysis call.
ClassifyStep(version, release_id, r, classified, response, patch, templates) ==
    IF classified.tag = "raise"
    THEN Processed(FALSE, FALSE, classified.exc, r, "none", 0, None, 0)
    ELSE GenerateStep(version, release_id, r, classified,
             call_deepseek_api(r.commits, response), patch, templates)

\* Lines 1279-1290: a release without commits is skipped.
ResolvedStep(release_data, r, response, patch, templates) ==
    IF r.commit_count = 0 THEN Processed(TRUE, FALSE, "NO_COMMITS", r, "none", 0, None, 0)
    ELSE ClassifyStep(release_data.tag_name, release_data.id, r,
             classify_commits(r.commits, templates), response, patch, templates)

\* process_single_release(release_data): what it returns (success, ai_success,
\* error_msg; "" is None) and what it did: the commits counted, the document
\* written to the store (None when nothing was written), the requests made.
\* Every exception raised on the way is caught at line 1307.
process_single_release(release_data, git, response, patch, templates) ==
    IF ~check_optimization_status("manual_optimize", release_data.body).need_optimize
    THEN Processed(TRUE, FALSE, "SKIPPED", Resolved(<<>>, "none", None, 0), "none", 0, None, 0)
    ELSE ResolvedStep(release_data, get_git_commits(release_data.tag_name, git),
                      response, patch, templates)

BatchStats(total_releases, processed_releases, success_count, ai_success_count, skipped_count, error_count, total_commits) ==
    [total_releases |-> total_releases, processed_releases |-> processed_releases,
     success_count |-> success_count, ai_success_count |-> ai_success_count,
     skipped_count |-> skipped_count, error_count |-> error_count,
     total_commits |-> total_commits]

\* print_realtime_summary, lines 1191-1197 and 1209-1226: the counters.
print_realtime_summary_disjoint(stats, success, ai_success, error_msg) ==
    [stats EXCEPT
        !.success_count = IF success /\ error_msg # "NO_COMMITS" THEN @ + 1 ELSE @,
        !.ai_success_count = IF success /\ ai_success THEN @ + 1 ELSE @,
        !.error_count = IF success THEN @ ELSE @ + 1,
        !.skipped_count = IF success /\ error_msg = "NO_COMMITS" THEN @ + 1 ELSE @]

\* Counters that count an analysis that succeeded for a release that failed.
print_realtime_summary_ai_apart(stats, success, ai_success, error_msg) ==
    [stats EXCEPT
        !.success_count = IF success THEN @ + 1 ELSE @,
        !.ai_success_count = IF ai_success THEN @ + 1 ELSE @,
        !.error_count = IF success THEN @ ELSE @ + 1,
        !.skipped_count =
            IF success THEN (IF error_msg = "NO_COMMITS" THEN @ + 1 ELSE @)
            ELSE (IF error_msg = "SKIPPED" THEN @ + 1 ELSE @)]

print_realtime_summary(stats, success, ai_success, error_msg) ==
    [stats EXCEPT
        !.success_count = IF success THEN @ + 1 ELSE @,
        !.ai_success_count = IF success /\ ai_success THEN @ + 1 ELSE @,
        !.error_count = IF success THEN @ ELSE @ + 1,
        !.skipped_count =
            IF success THEN (IF error_msg = "NO_COMMITS" THEN @ + 1 ELSE @)
            ELSE (IF error_msg = "SKIPPED" THEN @ + 1 ELSE @)]

\* print_realtime_summary, lines 1209-1224: the status shown for the release.
StatusOf(success, error_msg) ==
    IF success THEN (IF error_msg = "NO_COMMITS" THEN "Skipped" ELSE "Succeeded")
    ELSE IF error_msg = "SKIPPED" THEN "Skipped"
    ELSE "Failed"

\* A threshold that 0.8 itself does not reach.
BatchSucceededStrictly(stats, n) == 5 * stats.success_count > 4 * n

\* Line 1359-1360: success_count / len(all_releases) >= 0.8, a comparison of
\* floating-point numbers that agrees with the one of the integers here.
BatchSucceeded(stats, n) == 5 * stats.success_count >= 4 * n

(***************************************************************************)
(* validate_params, get_release_info and the single-release part of run(). *)
(* An optional argument is None or Some(value); an empty string counts as  *)
(* None, as both are false in the conditions of the source.                *)
(***************************************************************************)
Params(event_name, version, release_id, tag, target) ==
    [event_name |-> event_name, version |-> version, release_id |-> release_id,
     tag |-> tag, target |-> target]

Selected(run_mode, version, release_id) ==
    [mode |-> run_mode, version |-> version, release_id |-> release_id]

\* _get_latest_release(): the answer of the store to releases/latest.
LatestAnswer(ok, releases) ==
    IF ok /\ releases # <<>>
    THEN [ok |-> TRUE, tag_name |-> releases[1].tag_name, id |-> releases[1].id]
    ELSE [ok |-> FALSE, tag_name |-> "", id |-> 0]

\* validate_params: (mode, version, release id) or ValueError; a target of
\* latest asks the store, and fails with it. The words latest and all are
\* recognised in any case (target.lower(), tag.lower(), by Lower); any other target
\* or tag is returned as it was given.
validate_params(p, latest) ==
    IF p.event_name = "workflow_call"
    THEN IF p.version = None \/ p.release_id = None THEN Raise("ValueError")
         ELSE Ret(Selected("workflow_call", p.version[1], p.release_id))
    ELSE IF p.target # None
    THEN IF Lower(p.target[1]) = "latest"
         THEN IF latest.ok THEN Ret(Selected("manual_optimize", latest.tag_name, Some(latest.id)))
              ELSE Raise("Exception")
         ELSE IF Lower(p.target[1]) = "all" THEN Ret(Selected("batch_all", "all", None))
         ELSE Ret(Selected("manual_optimize", p.target[1], None))
    ELSE IF p.tag # None
    THEN IF Lower(p.tag[1]) = "all" THEN Ret(Selected("batch_all", "all", None))
         ELSE Ret(Selected("manual_optimize", p.tag[1], None))
    ELSE IF p.release_id # None
    THEN IF p.version = None THEN Raise("ValueError")
         ELSE Ret(Selected("auto_release", p.version[1], p.release_id))
    ELSE Raise("ValueError")

\* A validation that asks the store for the latest release before any test.
ValidateReadsFirst(p) == 1

\* Line 260-263: the only request validate_params makes.
ValidateReads(p) ==
    IF p.event_name # "workflow_call" /\ p.target # None /\ Lower(p.target[1]) = "latest"
    THEN 1 ELSE 0

\* get_release_info: by id in auto_release mode with an id, by tag otherwise;
\* (id, body) of the release found, or an exception for any status but 200.
\* Line 379 takes len(original_changelog) for the step summary: a TypeError
\* when the body of the release found is null.
get_release_info(run_mode, version, release_id, releases, up) ==
    LET by_id == run_mode = "auto_release" /\ release_id # None
        found == {k \in 1..Len(releases) :
                     IF by_id THEN releases[k].id = release_id[1]
                     ELSE releases[k].tag_name = version}
    IN IF ~up \/ found = {} THEN Raise("Exception")
       ELSE IF releases[MinOf(found)].body = NullBody THEN Raise("TypeError")
       ELSE Ret(releases[MinOf(found)])

SingleRun(ret, release_id, p, raised, reported, reads) ==
    [result |-> ret, release_id |-> release_id, processed |-> p, raised |-> raised,
     reported |-> reported, reads |-> reads]

NothingResolved == Resolved(<<>>, "none", None, 0)

\* Lines 1526-1564: the update and the final report.
SinglePublish(release_id, r, ai_success, changelog, patch) ==
    IF changelog.tag = "raise"
    THEN SingleRun(FALSE, release_id,
             Processed(FALSE, FALSE, changelog.exc, r,
                       IF ai_success THEN "present" ELSE "absent", 1, None, 0),
             TRUE, FALSE, 1)
    ELSE IF update_release_changelog(release_id, changelog.val, patch)
    THEN SingleRun(TRUE, release_id,
             Processed(TRUE, ai_success, "", r,
                       IF r.commits = <<>> THEN "none"
                       ELSE IF ai_success THEN "present" ELSE "absent",
                       IF r.commits = <<>> THEN 0 ELSE 1, Some(changelog.val), 1),
             FALSE, TRUE, 1)
    ELSE SingleRun(FALSE, release_id,
             Processed(FALSE, ai_success, "", r,
                       IF r.commits = <<>> THEN "none"
                       ELSE IF ai_success THEN "present" ELSE "absent",
                       IF r.commits = <<>> THEN 0 ELSE 1, None, 1),
             FALSE, TRUE, 1)

\* Lines 1507-1524: the analysis and the document.
SingleGenerate(version, release_id, r, classified, ai_analysis, patch, templates) ==
    IF ai_analysis.tag = "raise"
    THEN SingleRun(FALSE, release_id,
             Processed(FALSE, FALSE, ai_analysis.exc, r, "raised", 1, None, 0),
             TRUE, FALSE, 1)
    ELSE SinglePublish(release_id, r, ai_analysis.val # None,
             ChangelogFor(version, r.commits, classified.val, ai_analysis.val, templates),
             patch)

\* Lines 1502-1509: the classification and the analysis call.
SingleClassify(version, release_id, r, classified, response, patch, templates) ==
    IF classified.tag = "raise"
    THEN SingleRun(FALSE, release_id,
             Processed(FALSE, FALSE, classified.exc, r, "none", 0, None, 0),
             TRUE, FALSE, 1)
    ELSE SingleGenerate(version, release_id, r, classified,
             call_deepseek_api(r.commits, response), patch, templates)

\* Lines 1497-1504: the commits; no test of the commit count is made.
SingleResolve(version, release_id, r, response, patch, templates) ==
    SingleClassify(version, release_id, r, classify_commits(r.commits, templates),
                   response, patch, templates)

\* Lines 1481-1499, after get_release_info.
SingleInfo(sel, info, git, response, patch, templates) ==
    IF info.tag = "raise"
    THEN SingleRun(FALSE, 0,
             Processed(FALSE, FALSE, info.exc, NothingResolved, "none", 0, None, 0),
             TRUE, FALSE, 1)
    ELSE SingleResolve(sel.version, info.val.id, get_git_commits(sel.version, git),
                       response, patch, templates)

\* run(), lines 1481-1568, for a single release: get_release_info, the commits,
\* the classification, the analysis, the document, the update, the final report.
\* An exception on the way ends the run without the final report (line 1566).
run_single(sel, releases, up, git, response, patch, templates) ==
    SingleInfo(sel, get_release_info(sel.mode, sel.version, sel.release_id, releases, up),
               git, response, patch, templates)

(***************************************************************************)
(* The inputs of a run: arguments, answers of the history provider, of the *)
(* analysis service and of the release store.                              *)
(***************************************************************************)
RunParams ==
    {Params("workflow_dispatch", None, None, None, Some("all")),
     Params("workflow_dispatch", None, None, None, Some("LATEST")),
     Params("workflow_dispatch", None, None, None, Some("v1.1")),
     Params("workflow_call", Some("v1.1"), Some(2), None, None),
     Params("workflow_call", Some("v1.1"), Some(3), None, None),
     Params("workflow_dispatch", None, None, None, None),
     Params("workflow_dispatch", Some("v1.1"), None, None, None),
     Params("workflow_dispatch", None, Some(2), None, None),
     Params("workflow_call", None, Some(2), None, None),
     Params("workflow_call", Some("v1.1"), None, None, None)}

\* The tag listing: every tag of TagNames, the newest first.
TagListing ==
    Flatten([k \in 1..Len(TagNames) |->
        <<TagNames[Len(TagNames) + 1 - k]>> \o (IF k < Len(TagNames) THEN <<WS>> ELSE <<>>)])

GitFails == Git(GitAnswer(FALSE, <<>>), GitAnswer(FALSE, <<>>), GitAnswer(FALSE, <<>>),
                GitAnswer(FALSE, <<>>))
GitEmpty == Git(GitAnswer(TRUE, TagListing), GitAnswer(TRUE, <<>>), GitAnswer(TRUE, <<>>),
                GitAnswer(TRUE, <<>>))
GitTwoCommits ==
    Git(GitAnswer(TRUE, TagListing),
        GitAnswer(TRUE, <<"a1", PIPE, "feat:", " ", "add", PIPE, WS,
                          "a2", PIPE, "fix:", " ", "bug", PIPE, "why">>),
        GitAnswer(TRUE, <<>>), GitAnswer(TRUE, <<>>))

RunGit == {GitFails, GitEmpty, GitTwoCommits}

RunResponses ==
    {Response("exception", 0, FALSE, <<>>),
     TextResponse(<<DOC_EMPTY>>),
     TextResponse(<<DOC_BADHIGHLIGHTS>>)}

PatchAnswers == {"200", "404", "exception"}

InitialStore(n) == [k \in 1..n |-> ReleaseData(k, TagNames[k], OldBody)]

ZeroNet == [reads |-> 0, queries |-> 0, ai_calls |-> 0, writes |-> 0]
NoSelection == Selected("", "", None)
PerPage == 30

\* What is remembered of a release handled: the Processed record and
\* the status shown for it.
Outcome(release_data, p, status) ==
    [tag_name |-> release_data.tag_name, id |-> release_data.id, processed |-> p,
     status |-> status]

Write(releases, id, written) ==
    IF written = None THEN releases
    ELSE [k \in 1..Len(releases) |->
             IF releases[k].id = id THEN [releases[k] EXCEPT !.body = written[1]]
             ELSE releases[k]]

FnIdle == fn_in = None /\ fn_out = None /\ fn_pc = "unused"

RunIdle ==
    /\ pc = "unused" /\ params = Params("", None, None, None, None)
    /\ mode = NoSelection /\ all_releases = <<>> /\ idx = 0 /\ turn = <<>>
    /\ batch_stats = BatchStats(0, 0, 0, 0, 0, 0, 0)
    /\ outcomes = <<>> /\ store = <<>> /\ net = ZeroNet /\ sleeps = 0
    /\ result = None /\ report = <<>>

Init ==
    /\ pc = "start"
    /\ params \in RunParams
    /\ mode = NoSelection
    /\ all_releases = <<>>
    /\ idx = 0
    /\ turn = <<>>
    /\ batch_stats = BatchStats(0, 0, 0, 0, 0, 0, 0)
    /\ outcomes = <<>>
    /\ store \in {InitialStore(n) : n \in 0..MaxReleases}
    /\ net = ZeroNet
    /\ sleeps = 0
    /\ result = None
    /\ report = <<>>
    /\ FnIdle

\* run(), lines 1464-1470 and 1566-1568: validate_params; an exception ends the run.
Validate ==
    /\ pc = "start"
    /\ \E latest_ok \in BOOLEAN :
        LET v == validate_params(params, LatestAnswer(latest_ok, store))
        IN /\ net' = [net EXCEPT !.reads = @ + ValidateReads(params)]
           /\ IF v.tag = "raise"
              THEN /\ pc' = "done" /\ result' = Some(FALSE) /\ mode' = mode
              ELSE /\ mode' = v.val
                   /\ result' = result
                   /\ pc' = IF v.val.mode = "batch_all" THEN "enumerating" ELSE "single"
    /\ UNCHANGED <<params, all_releases, idx, turn, batch_stats, outcomes, store, sleeps, report,
                   fn_in, fn_out, fn_pc>>

\* run_batch_processing, lines 1320-1328 and 1362-1364, with get_all_releases:
\* the listing is read page by page, one request per page up to and including
\* the first empty page. Any of these requests can fail (failing is its
\* number, 0 when none does): the requests before it were made, the batch
\* ends with False and without a summary. An empty listing ends it with True.
GetAllReleases ==
    /\ pc = "enumerating"
    /\ \E failing \in 0..((Len(store) + PerPage - 1) \div PerPage + 1) :
        IF failing > 0
        THEN /\ net' = [net EXCEPT !.reads = @ + failing]
             /\ pc' = "done" /\ result' = Some(FALSE)
             /\ UNCHANGED <<all_releases, batch_stats>>
        ELSE /\ net' = [net EXCEPT !.reads = @ + (Len(store) + PerPage - 1) \div PerPage + 1]
             /\ all_releases' = store
             /\ IF store = <<>>
                THEN pc' = "done" /\ result' = Some(TRUE) /\ UNCHANGED batch_stats
                ELSE /\ pc' = "processing" /\ result' = result
                     /\ batch_stats' = [batch_stats EXCEPT !.total_releases = Len(store)]
    /\ UNCHANGED <<params, mode, idx, turn, outcomes, store, sleeps, report,
                   fn_in, fn_out, fn_pc>>

\* A loop that waits after every release, the last one too.
SleepsAfterEvery(i, total) == TRUE

\* Line 1343: time.sleep(2) follows release i unless it is the last.
SleepsAfter(i, total) == i < total

\* A loop that a failing release ends: what line 1345 would do without the try
\* around the body of the loop.
RecordedAborting(i, release_data, p, stats, requests) ==
    /\ batch_stats' = print_realtime_summary(stats, p.success, p.ai_success, p.error_msg)
    /\ outcomes' = Append(outcomes,
                       Outcome(release_data, [p EXCEPT !.written = None],
                               StatusOf(p.success, p.error_msg)))
    /\ store' = Write(store, release_data.id, p.written)
    /\ net' = requests
    /\ turn' = <<>>
    /\ pc' = IF p.success THEN "summarized" ELSE "done"

\* Lines 1305-1309 and 1340: process_single_release returns p for release i
\* and print_realtime_summary raises the outcome counters of stats; the body
\* is the one the update wrote, requests are the requests made so far.
\* processed_releases is not yet i.
Recorded(i, release_data, p, stats, requests) ==
    /\ batch_stats' = print_realtime_summary(stats, p.success, p.ai_success, p.error_msg)
    /\ outcomes' = Append(outcomes,
                       Outcome(release_data, [p EXCEPT !.written = None],
                               StatusOf(p.success, p.error_msg)))
    /\ store' = Write(store, release_data.id, p.written)
    /\ net' = requests
    /\ turn' = <<>>
    /\ pc' = "summarized"

\* The answers of a service that the turn does not ask.
NotAsked == [response |-> Response("exception", 0, FALSE, <<>>), patch |-> "200"]

\* run_batch_processing, lines 1335-1338, and process_single_release, lines
\* 1269-1293: a turn of the loop, for release idx + 1, starts. The commits are
\* resolved and counted in total_commits (line 1287) and classified. A
\* release that ends there (nothing to do, no commit, an exception) is
\* summarized at once; for any other the request to the analysis service is
\* sent and the program waits for the answer.
ProcessRelease ==
    /\ pc = "processing"
    /\ idx < Len(all_releases)
    /\ \E git \in RunGit :
        \E p \in {process_single_release(all_releases[idx + 1], git, NotAsked.response,
                                         NotAsked.patch, DefaultTemplates)} :
           IF p.ai_calls = 0
           THEN Recorded(idx + 1, all_releases[idx + 1], p,
                         [batch_stats EXCEPT !.total_commits = @ + p.commit_count],
                         [net EXCEPT !.queries = @ + p.queries])
           ELSE /\ batch_stats' = [batch_stats EXCEPT !.total_commits = @ + p.commit_count]
                /\ net' = [net EXCEPT !.queries = @ + p.queries, !.ai_calls = @ + p.ai_calls]
                /\ turn' = <<git>>
                /\ pc' = "in_post"
                /\ UNCHANGED <<outcomes, store>>
    /\ UNCHANGED <<params, mode, all_releases, idx, sleeps, result, report,
                   fn_in, fn_out, fn_pc>>

\* process_single_release, lines 1293-1303: requests.post (line 633) returns
\* or raises. The document is generated; when that raises, the release is
\* summarized; otherwise the update is sent and the program waits in
\* requests.patch (line 902). The counters are as they were during the wait.
AnalysisAnswered ==
    /\ pc = "in_post"
    /\ \E response \in RunResponses :
        \E p \in {process_single_release(all_releases[idx + 1], turn[1], response,
                                         NotAsked.patch, DefaultTemplates)} :
           IF p.write_attempts = 0
           THEN Recorded(idx + 1, all_releases[idx + 1], p, batch_stats, net)
           ELSE /\ net' = [net EXCEPT !.writes = @ + 1]
                /\ turn' = <<turn[1], response>>
                /\ pc' = "in_patch"
                /\ UNCHANGED <<batch_stats, outcomes, store>>
    /\ UNCHANGED <<params, mode, all_releases, idx, sleeps, result, report,
                   fn_in, fn_out, fn_pc>>

\* process_single_release, lines 1303-1305, and line 1340: requests.patch
\* returns or raises, and the release is summarized. A write attempted after
\* the one that was waited for would be counted here.
PatchAnswered ==
    /\ pc = "in_patch"
    /\ \E patch \in PatchAnswers :
        \E p \in {process_single_release(all_releases[idx + 1], turn[1], turn[2], patch,
                                         DefaultTemplates)} :
           Recorded(idx + 1, all_releases[idx + 1], p, batch_stats,
                    [net EXCEPT !.writes = @ + p.write_attempts - 1])
    /\ UNCHANGED <<params, mode, all_releases, idx, sleeps, result, report,
                   fn_in, fn_out, fn_pc>>

\* Lines 1342-1344: the turn enters time.sleep(2) when its release is not the last.
Sleep ==
    /\ pc = "summarized"
    /\ SleepsAfter(idx + 1, Len(all_releases))
    /\ sleeps' = sleeps + 1
    /\ pc' = "sleeping"
    /\ UNCHANGED <<params, mode, all_releases, idx, turn, batch_stats, outcomes, store, net,
                   result, report, fn_in, fn_out, fn_pc>>

\* Line 1350: the end of the turn, after the wait or, for the last release,
\* right after print_realtime_summary: processed_releases = i, and the loop
\* moves on.
MarkProcessed ==
    /\ pc = "sleeping" \/ (pc = "summarized" /\ ~SleepsAfter(idx + 1, Len(all_releases)))
    /\ batch_stats' = [batch_stats EXCEPT !.processed_releases = idx + 1]
    /\ idx' = idx + 1
    /\ pc' = "processing"
    /\ UNCHANGED <<params, mode, all_releases, turn, outcomes, store, net, sleeps, result,
                   report, fn_in, fn_out, fn_pc>>

\* run_batch_processing, lines 1352-1360: the final summary and the verdict.
Summarize ==
    /\ pc = "processing"
    /\ idx = Len(all_releases)
    /\ report' = Append(report, "batch_final")
    /\ result' = Some(BatchSucceeded(batch_stats, Len(all_releases)))
    /\ pc' = "done"
    /\ UNCHANGED <<params, mode, all_releases, idx, turn, batch_stats, outcomes, store, net,
                   sleeps,
                   fn_in, fn_out, fn_pc>>

\* What a single-release run leaves behind.
SingleRecorded(s) ==
    /\ outcomes' = Append(outcomes,
           Outcome(ReleaseData(s.release_id, mode.version, OldBody),
                   [s.processed EXCEPT !.written = None],
                   IF s.result THEN "Succeeded" ELSE "Failed"))
    /\ store' = Write(store, s.release_id, s.processed.written)
    /\ net' = [net EXCEPT !.reads = @ + s.reads, !.queries = @ + s.processed.queries,
                          !.ai_calls = @ + s.processed.ai_calls,
                          !.writes = @ + s.processed.write_attempts]
    /\ report' = IF s.reported THEN Append(report, "single_final") ELSE report
    /\ result' = Some(s.result)

\* run(), lines 1481-1568: the single-release modes.
RunSingle ==
    /\ pc = "single"
    /\ \E up \in BOOLEAN, git \in RunGit, response \in RunResponses, patch \in PatchAnswers :
        SingleRecorded(run_single(mode, store, up, git, response, patch, DefaultTemplates))
    /\ pc' = "done"
    /\ UNCHANGED <<params, mode, all_releases, idx, turn, batch_stats, sleeps, fn_in, fn_out, fn_pc>>

Next ==
    Validate \/ GetAllReleases \/ ProcessRelease \/ AnalysisAnswered \/ PatchAnswered
        \/ Sleep \/ MarkProcessed \/ Summarize \/ RunSingle

Spec == Init /\ [][Next]_vars

(***************************************************************************)
(* The analysis stage alone: call_deepseek_api on every response, then the *)
(* choice of the rendering.                                                *)
(***************************************************************************)
InterpTokens == {FENCE, JSONLABEL, WS, JUNK, DOC_EMPTY, DOC_ARRAY}

AnalysisResponses ==
    {TextResponse(t) : t \in SeqsUpTo(InterpTokens, MaxTextLen)}
    \cup {TextResponse(<<d>>) : d \in DocTokens}
    \cup {TextResponse(<<FENCE, JSONLABEL, WS, d, WS, FENCE>>) : d \in DocTokens}
    \cup {Response("exception", 0, FALSE, <<>>), Response("response", 500, FALSE, <<>>),
          Response("response", 200, FALSE, <<>>)}

SampleCommits == ParseCommits(GitTwoCommits.primary.out)

InitAnalysis ==
    /\ fn_in \in AnalysisResponses
    /\ fn_out = <<>>
    /\ fn_pc = "ready"
    /\ RunIdle

\* ai_analysis = self.call_deepseek_api(commits)
CallDeepseekApi ==
    /\ fn_pc = "ready"
    /\ fn_out' = <<call_deepseek_api(SampleCommits, fn_in)>>
    /\ fn_pc' = "called"
    /\ UNCHANGED <<fn_in, pc, params, mode, all_releases, idx, turn, batch_stats, outcomes, store,
                   net, sleeps, result, report>>

\* Lines 1294-1300, when the call returned.
GenerateChangelog ==
    /\ fn_pc = "called"
    /\ fn_out[1].tag = "return"
    /\ fn_out' = Append(fn_out,
           ChangelogFor("v1.1", SampleCommits,
                        classify_commits(SampleCommits, DefaultTemplates).val,
                        fn_out[1].val, DefaultTemplates))
    /\ fn_pc' = "generated"
    /\ UNCHANGED <<fn_in, pc, params, mode, all_releases, idx, turn, batch_stats, outcomes, store,
                   net, sleeps, result, report>>

NextAnalysis == CallDeepseekApi \/ GenerateChangelog

SpecAnalysis == InitAnalysis /\ [][NextAnalysis]_vars

(***************************************************************************)
(* classify_commits alone, on every commit list and configuration.         *)
(***************************************************************************)
CommitPool ==
    {CommitInfo(<<"a1">>, <<"feat:", " ", "add">>, <<>>),
     CommitInfo(<<"a2">>, <<"Fix:", " ", "bug">>, <<"why">>),
     CommitInfo(<<"a3">>, <<"update", " ", "docs">>, <<>>),
     CommitInfo(<<"a4">>, <<"docs:">>, <<>>),
     CommitInfo(<<"a5">>, <<"chore">>, <<"fix:", " ", "body">>)}

\* Configurations: the default one; one whose FEATURE pattern also accepts what
\* the FIX pattern accepts; one that defines a pattern for OTHER, put first.
ClassifyConfigs ==
    {DefaultTemplates,
     [DefaultTemplates EXCEPT !.commit_patterns =
         <<Pat("FEATURE", {"feat:", "fix:"}), Pat("FIX", {"fix:"}), Pat("DOCS", {"docs:"})>>],
     [DefaultTemplates EXCEPT !.commit_patterns =
         <<Pat("OTHER", {"fix:", "update"}), Pat("FIX", {"fix:"}), Pat("DOCS", {"docs:", "update"})>>]}

InitClassify ==
    /\ fn_in \in [commits : SeqsUpTo(CommitPool, MaxCommits), templates : ClassifyConfigs]
    /\ fn_out = <<>>
    /\ fn_pc = "ready"
    /\ RunIdle

\* classified_commits = self.classify_commits(commits)
ClassifyCommits ==
    /\ fn_pc = "ready"
    /\ fn_out' = <<classify_commits(fn_in.commits, fn_in.templates)>>
    /\ fn_pc' = "classified"
    /\ UNCHANGED <<fn_in, pc, params, mode, all_releases, idx, turn, batch_stats, outcomes, store,
                   net, sleeps, result, report>>

NextClassify == ClassifyCommits

SpecClassify == InitClassify /\ [][NextClassify]_vars

(***************************************************************************)
(* Properties of the batch and of the single-release runs.                 *)
(***************************************************************************)
IsBatch == mode.mode = "batch_all"
BatchFinished == IsBatch /\ pc = "done" /\ all_releases # <<>>
CountOutcomes(statuses) == Cardinality({j \in DOMAIN outcomes : outcomes[j].status \in statuses})

\* The releases whose processing has returned: those of the turns that are
\* over and, inside a turn, its own.
Handled == IF pc \in {"summarized", "sleeping"} THEN idx + 1 ELSE idx

\* C1: in a batch run every release of the listing is processed exactly once and
\* in listing order: the outcomes recorded are those of the first releases of
\* the listing, one for each release handled, the run ends only after the last
\* one, and a step of the loop changes neither an outcome recorded before nor
\* the body of a release other than the one of the turn under way, whose
\* body only the answer to its update changes.
C1_EveryReleaseOnceInOrder ==
    /\ [](IsBatch =>
            /\ Len(outcomes) = Handled
            /\ Handled <= Len(all_releases)
            /\ \A j \in 1..Handled : /\ outcomes[j].id = all_releases[j].id
                                     /\ outcomes[j].tag_name = all_releases[j].tag_name
            /\ (pc = "done" => idx = Len(all_releases)))
    /\ [][IsBatch =>
            /\ \A j \in DOMAIN outcomes : j \in DOMAIN outcomes' /\ outcomes'[j] = outcomes[j]
            /\ Len(outcomes') \in {Len(outcomes), Len(outcomes) + 1}
            /\ \A k \in DOMAIN store :
                   store'[k] # store[k] =>
                       k = idx + 1 /\ pc = "in_patch" /\ Len(outcomes') = idx + 1]_vars

\* A finished batch in which a release failed with an exception, another one
\* failed at the publish, and a later one succeeded.
C1_Witness ==
    /\ BatchFinished /\ result # None
    /\ \E i, j, k \in DOMAIN outcomes :
        /\ i < j /\ j < k
        /\ outcomes[i].status = "Failed" /\ outcomes[i].processed.error_msg = "TypeError"
        /\ outcomes[j].status = "Failed" /\ outcomes[j].processed.write_attempts = 1
        /\ outcomes[k].status = "Succeeded"

\* C2 as stated: the batch returns true iff 5 * succeeded >= 4 * totalReleases,
\* succeeded being the number of releases whose outcome is Succeeded.
C2_SucceededOnlyThreshold ==
    BatchFinished =>
        (result = Some(TRUE) <=> 5 * CountOutcomes({"Succeeded"}) >= 4 * Len(all_releases))

\* C2, amended: the batch returns true iff 5 * n >= 4 * totalReleases, n being
\* the number of releases whose outcome is Succeeded or Skipped, that is, not Failed.
C2_NotFailedThreshold ==
    BatchFinished =>
        /\ result # None
        /\ result = Some(TRUE) <=>
               5 * CountOutcomes({"Succeeded", "Skipped"}) >= 4 * Len(all_releases)

\* Exactly 0.8: four of five releases did not fail, and the batch returned true.
C2_Witness ==
    /\ BatchFinished /\ Len(all_releases) = 5
    /\ CountOutcomes({"Failed"}) = 1 /\ CountOutcomes({"Succeeded"}) >= 1
    /\ result = Some(TRUE)

\* C3 as stated: every release is counted in exactly one of the counters, so that
\* succeeded + skipped + failed = processed = totalReleases when the batch finishes.
C3_CountersDisjoint ==
    IsBatch =>
        /\ batch_stats.success_count + batch_stats.skipped_count + batch_stats.error_count
               = Len(outcomes)
        /\ (BatchFinished =>
               /\ batch_stats.success_count + batch_stats.skipped_count
                      + batch_stats.error_count = batch_stats.processed_releases
               /\ batch_stats.processed_releases = batch_stats.total_releases)

\* C3, amended: every release has exactly one outcome; the failed counter counts
\* the Failed releases, the skipped counter the Skipped ones, and the succeeded
\* counter the Succeeded and the Skipped ones, so that succeeded + failed is
\* the number of releases handled; processed is the number of turns that are
\* over (one less inside a turn), and succeeded + failed = processed =
\* totalReleases when the batch finishes.
C3_CountersByOutcome ==
    IsBatch =>
        /\ \A j \in DOMAIN outcomes : outcomes[j].status \in {"Succeeded", "Skipped", "Failed"}
        /\ batch_stats.error_count = CountOutcomes({"Failed"})
        /\ batch_stats.skipped_count = CountOutcomes({"Skipped"})
        /\ batch_stats.success_count = CountOutcomes({"Succeeded", "Skipped"})
        /\ batch_stats.success_count + batch_stats.error_count = Len(outcomes)
        /\ batch_stats.processed_releases = idx
        /\ Len(outcomes) = Handled
        /\ (BatchFinished =>
               /\ batch_stats.success_count + batch_stats.error_count
                      = batch_stats.processed_releases
               /\ batch_stats.processed_releases = batch_stats.total_releases)

\* A finished batch with a release of each outcome.
C3_Witness ==
    /\ BatchFinished /\ result # None
    /\ CountOutcomes({"Succeeded"}) >= 1
    /\ CountOutcomes({"Skipped"}) >= 1
    /\ CountOutcomes({"Failed"}) >= 1
    /\ batch_stats.skipped_count >= 1

\* C4 as stated: in a batch run a release whose commits could not be resolved
\* because the git command failed is recorded as Failed, in the failed counter
\* and not in the succeeded one.
C4_ResolutionFailureIsFailed ==
    IsBatch =>
        /\ \A j \in DOMAIN outcomes :
              outcomes[j].processed.commit_range = "git_error" => outcomes[j].status = "Failed"
        /\ batch_stats.error_count >=
              Cardinality({j \in DOMAIN outcomes : outcomes[j].processed.commit_range = "git_error"})

\* C5 as stated: whatever the analysis service answers, a release with commits
\* is assembled and published (one write is attempted), the analysis step
\* makes no release Failed, and without an analysis result the rule-based
\* document is the one published.
C5_AnalysisNeverFails ==
    \A j \in DOMAIN outcomes :
        outcomes[j].processed.commit_count > 0 =>
            /\ outcomes[j].processed.write_attempts = 1
            /\ outcomes[j].processed.analysis \in {"present", "absent"}
            /\ (outcomes[j].status = "Succeeded" /\ outcomes[j].processed.analysis = "absent"
                    => \E k \in DOMAIN store :
                          store[k].id = outcomes[j].id /\ store[k].body.kind = "basic")

\* C6 as stated: a release whose resolved commit range is empty is Skipped and
\* nothing is published for it, in batch mode and in the single-release modes.
C6_EmptyRangeSkipped ==
    \A j \in DOMAIN outcomes :
        outcomes[j].processed.commit_range = "empty_release" =>
            /\ outcomes[j].processed.commit_count = 0
            /\ outcomes[j].status = "Skipped"
            /\ outcomes[j].processed.write_attempts = 0
            /\ \A k \in DOMAIN store : store[k].id = outcomes[j].id => store[k].body = OldBody

(***************************************************************************)
(* Properties of the interpretation of the analysis response.              *)
(***************************************************************************)
IsTextResponse ==
    /\ fn_pc \in {"called", "generated"}
    /\ fn_in.kind = "response" /\ fn_in.status = 200 /\ fn_in.choices /\ fn_in.content # <<>>

\* A strategy succeeds on a text when the candidate it selects parses as a
\* document from which an AnalysisResult is built.
Usable(parsed) == parsed.ok /\ AnalysisResultOf(parsed.doc).tag = "return"
WholeTextSucceeds(text) == Usable(json_loads(text))
JsonBlockSucceeds(text) ==
    SearchJsonBlock(text).found /\ Usable(json_loads(SearchJsonBlock(text).group))
AnyBlockSucceeds(text) ==
    SearchAnyBlock(text).found /\ Usable(json_loads(SearchAnyBlock(text).group))

\* C7 as stated: each strategy is attempted when the one before it failed, so
\* that absence is returned only when the whole text, the block labelled json and
\* the first fenced block all fail.
C7_AbsentOnlyWhenAllFail ==
    IsTextResponse /\ fn_out[1] = Ret(None) =>
        /\ ~WholeTextSucceeds(fn_in.content)
        /\ ~JsonBlockSucceeds(fn_in.content)
        /\ ~AnyBlockSucceeds(fn_in.content)

\* C8: for every response of the service the interpretation returns: absence or
\* an AnalysisResult, and absence for a document that is not an object; no
\* exception reaches the caller.
C8_InterpretationNeverRaises ==
    fn_pc \in {"called", "generated"} =>
        /\ fn_out[1].tag = "return"
        /\ \/ fn_out[1].val = None
           \/ /\ Len(fn_out[1].val) = 1
              /\ DOMAIN fn_out[1].val[1] = {"categories", "summary", "highlights"}
        /\ (IsTextResponse /\ ObtainedDoc(fn_in.content) # None
               /\ ~ObtainedDoc(fn_in.content)[1].isObject => fn_out[1].val = None)

\* A document that is not an object, found in a block labelled json: absence.
C8_Witness ==
    /\ fn_pc = "called"
    /\ fn_in = TextResponse(<<FENCE, JSONLABEL, DOC_ARRAY, FENCE>>)
    /\ fn_out = <<Ret(None)>>

\* C9: whenever the whole text or a block of it parses as a document, the
\* interpretation succeeds: a missing summary, highlights or categories gets
\* its default (the default text, the empty sequence, the empty mapping), a
\* summary that is given is kept, and the document generated next is the AI
\* one, not the rule-based one.
C9_MissingFieldsDefaulted ==
    IsTextResponse /\ ObtainedDoc(fn_in.content) # None =>
        LET doc == ObtainedDoc(fn_in.content)[1]
        IN /\ fn_out[1].tag = "return" /\ fn_out[1].val # None
           /\ doc.summary.st = "missing" => fn_out[1].val[1].summary = Ok(DefaultSummary)
           /\ doc.highlights.st = "missing" => fn_out[1].val[1].highlights = Ok(<<>>)
           /\ doc.categories.st = "missing" => fn_out[1].val[1].categories = Ok(EmptyMap)
           /\ doc.summary.st = "ok" => fn_out[1].val[1].summary = doc.summary
           /\ fn_pc = "generated" => fn_out[2].tag = "return" /\ fn_out[2].val.kind = "ai"

(***************************************************************************)
(* Properties of classify_commits.                                         *)
(***************************************************************************)
\* The commits of the positions that f gives to category c, in their order.
RECURSIVE AssignedTo(_, _, _, _)
AssignedTo(commits, f, c, i) ==
    IF i > Len(commits) THEN <<>>
    ELSE (IF f[i] = c THEN <<[commits[i] EXCEPT !.category = c]>> ELSE <<>>)
         \o AssignedTo(commits, f, c, i + 1)

RECURSIVE SumOver(_, _)
SumOver(f, S) ==
    IF S = {} THEN 0
    ELSE LET x == CHOOSE y \in S : TRUE IN Len(f[x]) + SumOver(f, S \ {x})

\* C10: classify_commits returns a partition of the commit list: there is one
\* assignment of the positions of the list to categories such that every
\* category holds exactly the commits of its positions, in the order of the
\* list; the lengths add up to the length of the list.
C10_ClassifyPartitions ==
    fn_pc = "classified" =>
        /\ fn_out[1].tag = "return"
        /\ DOMAIN fn_out[1].val = Range(fn_in.templates.categories)
        /\ SumOver(fn_out[1].val, DOMAIN fn_out[1].val) = Len(fn_in.commits)
        /\ \E f \in [DOMAIN fn_in.commits ->
                        {c \in DOMAIN fn_out[1].val : fn_out[1].val[c] # <<>>}] :
              \A c \in DOMAIN fn_out[1].val :
                  fn_out[1].val[c] = AssignedTo(fn_in.commits, f, c, 1)

\* Three commits, two of them in one category and in the order of the list, the
\* third one, which no pattern matches, in OTHER.
C10_Witness ==
    /\ fn_pc = "classified"
    /\ Len(fn_in.commits) = 3
    /\ fn_out[1].tag = "return"
    /\ Len(fn_out[1].val["OTHER"]) = 1
    /\ \E c \in DOMAIN fn_out[1].val :
          /\ c # "OTHER" /\ Len(fn_out[1].val[c]) = 2
          /\ fn_out[1].val[c][1].hash # fn_out[1].val[c][2].hash

\* The patterns, OTHER's own left out, that the stripped subject of a commit matches.
NonOtherHits(templates, commit) ==
    {k \in DOMAIN templates.commit_patterns :
        /\ templates.commit_patterns[k].category # "OTHER"
        /\ Matches(templates.commit_patterns[k].pattern, Strip(commit.message))}

\* The categories whose sequence holds the commit with this id.
CategoriesHolding(classified, hash) ==
    {c \in DOMAIN classified : \E j \in DOMAIN classified[c] : classified[c][j].hash = hash}

\* C11: under every configuration, one that defines a pattern for OTHER
\* included, a commit whose subject matches none of the patterns of the other
\* categories is in OTHER and nowhere else, and a commit that matches one of
\* them is not in OTHER even when OTHER's own pattern matches it.
C11_UnmatchedGoesToOther ==
    fn_pc = "classified" =>
        /\ fn_out[1].tag = "return"
        /\ \A i \in DOMAIN fn_in.commits :
              IF NonOtherHits(fn_in.templates, fn_in.commits[i]) = {}
              THEN CategoriesHolding(fn_out[1].val, fn_in.commits[i].hash) = {"OTHER"}
              ELSE "OTHER" \notin CategoriesHolding(fn_out[1].val, fn_in.commits[i].hash)

\* The configuration with a pattern for OTHER, put first: a commit that OTHER's
\* pattern and FIX's pattern both match is in FIX, one that only OTHER's pattern
\* would match elsewhere is in OTHER with the unmatched one.
C11_Witness ==
    /\ fn_pc = "classified"
    /\ \E k \in DOMAIN fn_in.templates.commit_patterns :
          fn_in.templates.commit_patterns[k].category = "OTHER"
    /\ \E i, j \in DOMAIN fn_in.commits :
          /\ fn_in.commits[i].message = <<"Fix:", " ", "bug">>
          /\ CategoriesHolding(fn_out[1].val, fn_in.commits[i].hash) = {"FIX"}
          /\ fn_in.commits[j].message = <<"feat:", " ", "add">>
          /\ CategoriesHolding(fn_out[1].val, fn_in.commits[j].hash) = {"OTHER"}

\* C12: a commit is in the category of the first pattern, in the order of the
\* configuration, that matches its subject without regard to case; patterns
\* after it do not count, and the body of the commit does not either.
C12_FirstMatchWins ==
    fn_pc = "classified" =>
        /\ fn_out[1].tag = "return"
        /\ \A i \in DOMAIN fn_in.commits :
              LET hits == NonOtherHits(fn_in.templates, fn_in.commits[i])
              IN hits # {} =>
                    \E k \in hits :
                        /\ \A j \in hits : k <= j
                        /\ CategoriesHolding(fn_out[1].val, fn_in.commits[i].hash)
                               = {fn_in.templates.commit_patterns[k].category}

\* Under the configuration whose FEATURE and FIX patterns both match "Fix: bug",
\* that commit is in FEATURE, the earlier one; the commit whose body only starts
\* like a fix is in OTHER.
C12_Witness ==
    /\ fn_pc = "classified"
    /\ \E i, j \in DOMAIN fn_in.commits :
          /\ fn_in.commits[i].message = <<"Fix:", " ", "bug">>
          /\ Cardinality(NonOtherHits(fn_in.templates, fn_in.commits[i])) = 2
          /\ CategoriesHolding(fn_out[1].val, fn_in.commits[i].hash) = {"FEATURE"}
          /\ fn_in.commits[j].body = <<"fix:", " ", "body">>
          /\ CategoriesHolding(fn_out[1].val, fn_in.commits[j].hash) = {"OTHER"}

(***************************************************************************)
(* get_git_commits alone, on every target and every answer of git.         *)
(***************************************************************************)
\* What git log may write: nothing, blanks, well-formed lines, and lines that
\* lack the id, the subject or the pipes.
LogOutputs ==
    {<<>>, <<WS>>,
     <<"a1", PIPE, "feat:", " ", "add", PIPE, WS, "a2", PIPE, "fix:", " ", "bug", PIPE, "why">>,
     <<"a3", PIPE, "merge", PIPE>>,
     <<"abc", PIPE>>, <<PIPE, "msg">>, <<"nopipe">>,
     <<"a4", PIPE, " ", PIPE, "body">>,
     <<"a5", PIPE, "msg", PIPE, "b", PIPE, "c", WS, "see", PIPE, "also">>}

LogAnswers == {GitAnswer(FALSE, <<>>)} \cup {GitAnswer(TRUE, out) : out \in LogOutputs}

FallbackAnswers ==
    {GitAnswer(FALSE, <<>>), GitAnswer(TRUE, <<>>), GitAnswer(TRUE, <<"abc", PIPE>>),
     GitAnswer(TRUE, <<"a3", PIPE, "merge", PIPE>>)}

TagAnswers ==
    {GitAnswer(FALSE, <<>>), GitAnswer(TRUE, <<>>), GitAnswer(TRUE, TagListing),
     GitAnswer(TRUE, <<"v1.1", WS, " ", WS, "nightly", WS, "v1.0", WS>>)}

ResolverTargets == {"v1.0", "v1.1", "nightly", "v9.9"}

InitResolver ==
    /\ fn_in \in [version : ResolverTargets,
                  git : {Git(t, p, m, o) : t \in TagAnswers, p \in LogAnswers,
                                           m \in FallbackAnswers, o \in FallbackAnswers}]
    /\ fn_out = <<>>
    /\ fn_pc = "ready"
    /\ RunIdle

\* commits, commit_range, commit_count = self.get_git_commits(tag_name)
GetGitCommits ==
    /\ fn_pc = "ready"
    /\ fn_out' = <<get_git_commits(fn_in.version, fn_in.git)>>
    /\ fn_pc' = "resolved"
    /\ UNCHANGED <<fn_in, pc, params, mode, all_releases, idx, turn, batch_stats, outcomes, store,
                   net, sleeps, result, report>>

NextResolver == GetGitCommits

SpecResolver == InitResolver /\ [][NextResolver]_vars

(***************************************************************************)
(* Properties of get_git_commits.                                          *)
(***************************************************************************)
Blank(answer) == answer.ok /\ Strip(answer.out) = <<>>
Wrote(answer) == answer.ok /\ Strip(answer.out) # <<>>

\* C14: when the range query without merges writes nothing, the resolver asks
\* for the same range with the merges (when there is a range), then for the
\* commit at the tag, then gives the explicit empty result; a step is run only
\* when every step before it wrote nothing, and the first step that writes
\* something gives the commits.
C14_FallbackOrder ==
    fn_pc = "resolved" /\ fn_in.git.tags.ok =>
        /\ Wrote(fn_in.git.primary) =>
              /\ fn_out[1].queries = 2
              /\ fn_out[1].commits = ParseCommits(Strip(fn_in.git.primary.out))
        /\ Blank(fn_in.git.primary) /\ fn_out[1].last_tag # None /\ Wrote(fn_in.git.merges) =>
              /\ fn_out[1].queries = 3
              /\ fn_out[1].commit_range = "range"
              /\ fn_out[1].commits = ParseCommits(Strip(fn_in.git.merges.out))
        /\ Blank(fn_in.git.primary) /\ (fn_out[1].last_tag = None \/ Blank(fn_in.git.merges))
              /\ Wrote(fn_in.git.single) =>
              /\ fn_out[1].queries = IF fn_out[1].last_tag = None THEN 3 ELSE 4
              /\ fn_out[1].commit_range = "tag_commit"
              /\ fn_out[1].commits = ParseCommits(Strip(fn_in.git.single.out))
        /\ Blank(fn_in.git.primary) /\ (fn_out[1].last_tag = None \/ Blank(fn_in.git.merges))
              /\ Blank(fn_in.git.single) =>
              /\ fn_out[1].queries = IF fn_out[1].last_tag = None THEN 3 ELSE 4
              /\ fn_out[1].commit_range = "empty_release"
              /\ fn_out[1].commits = <<>> /\ fn_out[1].commit_count = 0

\* The range of v1.1 writes nothing without the merges and one merge commit
\* with them: that commit is the result and the commit at the tag is not asked for.
C14_Witness ==
    /\ fn_pc = "resolved"
    /\ fn_in.version = "v1.1"
    /\ Blank(fn_in.git.primary)
    /\ fn_in.git.merges = GitAnswer(TRUE, <<"a3", PIPE, "merge", PIPE>>)
    /\ Wrote(fn_in.git.single)
    /\ fn_out[1].last_tag = Some("v1.0")
    /\ fn_out[1].queries = 3
    /\ Len(fn_out[1].commits) = 1 /\ fn_out[1].commits[1].hash = <<"a3">>

\* C15: for every target and every answer of git, a failing command included,
\* get_git_commits returns its triple; when a command it runs fails, and when
\* nothing can be obtained, the list is empty and the count is 0.
C15_ResolverNeverRaises ==
    fn_pc = "resolved" =>
        /\ DOMAIN fn_out[1] = {"commits", "commit_range", "last_tag", "commit_count", "queries"}
        /\ fn_out[1].commit_count = Len(fn_out[1].commits)
        /\ (~fn_in.git.tags.ok \/ ~fn_in.git.primary.ok) =>
              fn_out[1].commits = <<>> /\ fn_out[1].commit_range = "git_error"
        /\ fn_out[1].commit_range \in {"git_error", "empty_release"} =>
              fn_out[1].commits = <<>> /\ fn_out[1].commit_count = 0

\* The tags are listed and the range query of v1.1 fails: the empty list.
C15_Witness ==
    /\ fn_pc = "resolved"
    /\ fn_in.version = "v1.1"
    /\ fn_in.git.tags = GitAnswer(TRUE, TagListing)
    /\ ~fn_in.git.primary.ok
    /\ fn_out[1].commits = <<>> /\ fn_out[1].commit_count = 0
    /\ fn_out[1].commit_range = "git_error" /\ fn_out[1].queries = 2

\* C16 as stated: every commit the resolver returns has an id and a subject
\* that are not empty.
C16_CommitsHaveIdAndSubject ==
    fn_pc = "resolved" =>
        \A j \in DOMAIN fn_out[1].commits :
            fn_out[1].commits[j].hash # <<>> /\ fn_out[1].commits[j].message # <<>>

(***************************************************************************)
(* get_git_commits on a repository: the answers of git are those a history *)
(* gives.  A repository is a line of n commits, 1 the oldest, some of them *)
(* merge commits, and tags that point at commits.  The batch resolves the  *)
(* releases of its tags one after the other.                               *)
(***************************************************************************)
CommitIds == <<"c1", "c2", "c3", "c4", "c5">>

\* The tags a repository may have, in the order of git tag --sort=-version:refname.
HistoryTagOrder == <<"v1.2", "v1.1", "v1.0", "nightly">>

\* A repository: its commits are numbered 1..Len(parents) in the order of their
\* dates, parents[k] are the parents of commit k (older commits: none for a root,
\* two for a merge), and tags gives the commit of every tag there is.
Repo(parents, tags) == [parents |-> parents, tags |-> tags]

\* The histories of n commits: lines, branches, merges and unrelated roots.
RECURSIVE Histories(_)
Histories(n) ==
    IF n = 0 THEN {<<>>}
    ELSE {Append(h, P) : h \in Histories(n - 1),
                         P \in {Q \in SUBSET (1..(n - 1)) : Cardinality(Q) <= 2}}

\* The tags of a repository of n commits: any of HistoryTagOrder, each on a commit.
TagMaps(n) == UNION {[T -> 1..n] : T \in SUBSET Range(HistoryTagOrder)}

\* The repositories of n commits.
Repos(n) == {Repo(parents, tags) : parents \in Histories(n), tags \in TagMaps(n)}

\* The commits reachable from commit k: k and the ancestors of k.
RECURSIVE Reach(_, _)
Reach(parents, k) == {k} \cup UNION {Reach(parents, p) : p \in parents[k]}

\* git tag --sort=-version:refname: one tag per line.
TagsText(repo) ==
    LET Present(tag) == tag \in DOMAIN repo.tags
        listed == SelectSeq(HistoryTagOrder, Present)
    IN Flatten([j \in 1..Len(listed) |-> <<listed[j], WS>>])

\* --pretty=format:%h|%s|%b for the commits given, a line each.
LogText(commits) ==
    Flatten([j \in 1..Len(commits) |->
        <<CommitIds[commits[j]], PIPE, "msg", PIPE>>
            \o (IF j < Len(commits) THEN <<WS>> ELSE <<>>)])

\* git log [-1] [from..]to [--no-merges]: the commits reachable from to and not
\* from from, without those of two parents under --no-merges, the newest
\* first; an unknown revision is an error.
git_log(repo, from, to, no_merges, one) ==
    IF to \notin DOMAIN repo.tags \/ (from # None /\ from[1] \notin DOMAIN repo.tags)
    THEN GitAnswer(FALSE, <<>>)
    ELSE LET n == Len(repo.parents)
             excluded == IF from = None THEN {} ELSE Reach(repo.parents, repo.tags[from[1]])
             range == Reach(repo.parents, repo.tags[to]) \ excluded
             Shown(k) == k \in range /\ (~no_merges \/ Cardinality(repo.parents[k]) < 2)
             all == SelectSeq([j \in 1..n |-> n + 1 - j], Shown)
         IN GitAnswer(TRUE, LogText(IF one /\ all # <<>> THEN <<all[1]>> ELSE all))

\* The answers of the repository to the commands get_git_commits(version) runs:
\* lines 433, 460 or 464, 486 and 492.
RepoGit(repo, version) ==
    Git(GitAnswer(TRUE, TagsText(repo)),
        git_log(repo, LastTagOf(version, TagsOf(TagsText(repo))), version, TRUE, FALSE),
        git_log(repo, LastTagOf(version, TagsOf(TagsText(repo))), version, FALSE, FALSE),
        git_log(repo, None, version, FALSE, TRUE))

\* The releases of the batch: one for each tag, the newest first.
ReleasesOf(repo) == TagsOf(TagsText(repo))

InitHistory ==
    /\ \E n \in 1..MaxHistory : fn_in \in Repos(n)
    /\ fn_out = <<>>
    /\ fn_pc = "ready"
    /\ RunIdle

\* Line 1280, for the next release of the listing.
ResolveRelease ==
    /\ fn_pc \in {"ready", "resolving"}
    /\ Len(fn_out) < Len(ReleasesOf(fn_in))
    /\ fn_out' = Append(fn_out,
           get_git_commits(ReleasesOf(fn_in)[Len(fn_out) + 1],
                           RepoGit(fn_in, ReleasesOf(fn_in)[Len(fn_out) + 1])))
    /\ fn_pc' = IF Len(fn_out) + 1 = Len(ReleasesOf(fn_in)) THEN "resolved" ELSE "resolving"
    /\ UNCHANGED <<fn_in, pc, params, mode, all_releases, idx, turn, batch_stats, outcomes, store,
                   net, sleeps, result, report>>

NextHistory == ResolveRelease

SpecHistory == InitHistory /\ [][NextHistory]_vars

(***************************************************************************)
(* Claims on the resolution of the releases of a repository.               *)
(***************************************************************************)
\* The version-shaped tags of the repository, the highest version first.
ConformingTags(repo) ==
    LET Conforms(tag) == tag \in DOMAIN repo.tags /\ tag \notin {"nightly", "latest", "all"}
    IN SelectSeq(HistoryTagOrder, Conforms)

\* The ids of the commits reachable from the tag that are not merges, the newest first.
HistoryUpTo(repo, tag) ==
    LET Listed(k) == /\ k \in Reach(repo.parents, repo.tags[tag])
                     /\ Cardinality(repo.parents[k]) < 2
        down == SelectSeq([j \in 1..Len(repo.parents) |-> Len(repo.parents) + 1 - j], Listed)
    IN [j \in 1..Len(down) |-> <<CommitIds[down[j]]>>]

IdsOf(resolved) == [j \in 1..Len(resolved.commits) |-> resolved.commits[j].hash]

\* The release of fn_out[j] has a tag that follows it among the conforming tags.
HasPrevious(repo, j) ==
    \E k \in 1..(Len(ConformingTags(repo)) - 1) : ConformingTags(repo)[k] = ReleasesOf(repo)[j]

\* C13: the previous tag of a target is the tag that follows it among the
\* version-shaped tags in descending order of version; a target that is the
\* oldest of them, or is not one of them, has no previous tag, its range is
\* labelled as the initial version and the commits are the whole history
\* reachable from the target (merges left out by the query).
C13_PreviousTag ==
    \A j \in 1..Len(fn_out) :
        /\ \A k \in 1..Len(ConformingTags(fn_in)) :
               ConformingTags(fn_in)[k] = ReleasesOf(fn_in)[j] /\ k < Len(ConformingTags(fn_in))
                   => fn_out[j].last_tag = Some(ConformingTags(fn_in)[k + 1])
        /\ ~HasPrevious(fn_in, j)
               => /\ fn_out[j].last_tag = None
                  /\ fn_out[j].commit_range = "initial"
                  /\ IdsOf(fn_out[j]) = HistoryUpTo(fn_in, ReleasesOf(fn_in)[j])

\* A repository with three version tags and nightly, all four resolved: v1.1
\* follows v1.2, v1.0 is the oldest and nightly is not version-shaped.
C13_Witness ==
    /\ fn_pc = "resolved"
    /\ Len(fn_out) = 4
    /\ fn_out[1].last_tag = Some("v1.1")
    /\ fn_out[3].last_tag = None /\ fn_out[3].commit_range = "initial"
    /\ fn_out[4].last_tag = None /\ Len(fn_out[4].commits) > 1

IdSet(resolved) == {resolved.commits[j].hash : j \in 1..Len(resolved.commits)}

TagsOnOneLine(repo) ==
    \A k \in 1..(Len(ConformingTags(repo)) - 1) :
        repo.tags[ConformingTags(repo)[k + 1]]
            \in Reach(repo.parents, repo.tags[ConformingTags(repo)[k]])

\* The list of fn_out[j] is the answer to a query on the range of a version-shaped tag.
FromRange(repo, j) ==
    /\ ReleasesOf(repo)[j] \in Range(ConformingTags(repo))
    /\ fn_out[j].commit_range \in {"range", "initial"}

BranchTagsOverlap ==
    /\ fn_pc = "resolved"
    /\ fn_in = Repo(<<{}, {}, {1}>>,
                    [t \in {"v1.0", "v1.1", "v1.2"} |->
                        IF t = "v1.0" THEN 1 ELSE IF t = "v1.1" THEN 2 ELSE 3])
    /\ \A j \in 1..3 : FromRange(fn_in, j)
    /\ IdSet(fn_out[1]) \cap IdSet(fn_out[3]) = {<<"c1">>}

(***************************************************************************)
(* One release processed again and again by one generator: the same tag,   *)
(* the same history and the same configuration.  A call is                 *)
(* process_single_release(release_data), as the batch loop makes it, or    *)
(* the single-release part of run(), the same in all the calls; the body   *)
(* the release has is the one the store holds at the call, the answers of  *)
(* the analysis service and of the store are those of each call.           *)
(***************************************************************************)
\* --pretty=format:%h|%s|%b for a list of commits: a line for each commit and
\* the further lines of its body; a body ends with a newline.
LogOf(commits) ==
    Flatten([j \in 1..Len(commits) |->
        commits[j].hash \o <<PIPE>> \o commits[j].message \o <<PIPE>> \o commits[j].body
            \o (IF commits[j].body # <<>> THEN <<WS>> ELSE <<>>)
            \o (IF j < Len(commits) THEN <<WS>> ELSE <<>>)])

\* The answers of git for a release whose range v1.0..v1.1 holds the commits
\* given, the newest first and none of them a merge: the query with the merge
\* commits prints the same lines, and git log -1 prints the commit the tag is
\* on, the newest of the range.
AssembleGit(commits) ==
    Git(GitAnswer(TRUE, TagListing), GitAnswer(TRUE, LogOf(commits)),
        GitAnswer(TRUE, LogOf(commits)), GitAnswer(TRUE, LogOf(SubSeq(commits, 1, 1))))

\* The service is unreachable (the rule path renders) or answers (the AI path).
AssembleResponses == {Response("exception", 0, FALSE, <<>>), TextResponse(<<DOC_FULL>>)}

\* The store accepts the update or refuses it.
AssemblePatches == {"200", "404"}

\* The body of the release before the first call: the text of the publisher,
\* or null. The body before a later call is what the calls before it wrote.
ExistingBodies == {OldBody, NullBody}

\* The calls of a generator are process_single_release(release_data), or run()
\* from line 1481 on in the mode manual_optimize for the tag of the release.
AssemblePaths == {"batch", "single"}

AssembleOutcome(path, release_data, commits, response, patch, templates) ==
    IF path = "batch"
    THEN process_single_release(release_data, AssembleGit(commits), response, patch, templates)
    ELSE run_single(Selected("manual_optimize", release_data.tag_name, None), <<release_data>>,
                    TRUE, AssembleGit(commits), response, patch, templates).processed

\* What is remembered of a call: its path, the body the release had, the
\* answers it got (None for a service it did not ask) and the Processed record.
Call(path, body, response, patch, processed) ==
    [path |-> path, body |-> body, response |-> response, patch |-> patch,
     processed |-> processed]

\* The commits of the history: two of CommitPool, one made with an empty
\* subject (git commit --allow-empty-message) and one whose body has two lines,
\* the second with a pipe character.
AssemblePool ==
    {c \in CommitPool : c.hash \in {<<"a1">>, <<"a2">>}}
        \cup {CommitInfo(<<"a6">>, <<>>, <<>>),
              CommitInfo(<<"a7">>, <<"msg">>, <<"why", WS, "see", PIPE, "also">>)}

\* The ranges of 1 to n commits of S: a commit occurs once in a history.
RangesUpTo(S, n) ==
    {r \in SeqsUpTo(S, n) : r # <<>> /\ \A i \in 1..Len(r) : \A j \in 1..Len(r) : r[i] = r[j] => i = j}

InitAssemble ==
    /\ fn_in \in [commits : RangesUpTo(AssemblePool, MaxCommits), templates : ClassifyConfigs,
                   path : AssemblePaths]
    /\ fn_out = <<>>
    /\ fn_pc = "ready"
    /\ store \in {<<ReleaseData(2, "v1.1", body)>> : body \in ExistingBodies}
    /\ pc = "unused" /\ params = Params("", None, None, None, None)
    /\ mode = NoSelection /\ all_releases = <<>> /\ idx = 0 /\ turn = <<>>
    /\ batch_stats = BatchStats(0, 0, 0, 0, 0, 0, 0)
    /\ outcomes = <<>> /\ net = ZeroNet /\ sleeps = 0
    /\ result = None /\ report = <<>>

\* The call returns: update_release_changelog has replaced the body of the
\* release when a document was written.
AssembleRecorded(call) ==
    /\ fn_out' = Append(fn_out, call)
    /\ store' = Write(store, store[1].id, call.processed.written)
    /\ turn' = <<>>
    /\ fn_pc' = "ready"

\* Lines 1265-1293, or 1481-1507: a call starts. The release is read (the
\* single-release path asks the store and fails on a null body), the commits
\* are resolved, counted in total_commits by process_single_release (line
\* 1287) and classified; the request to the analysis service is sent and the
\* generator waits in requests.post (line 633).
AssembleRelease ==
    /\ fn_pc = "ready"
    /\ Len(fn_out) < MaxCalls
    /\ \E p \in {AssembleOutcome(fn_in.path, store[1], fn_in.commits, NotAsked.response,
                                 NotAsked.patch, fn_in.templates)} :
           /\ batch_stats' = IF fn_in.path = "batch"
                             THEN [batch_stats EXCEPT !.total_commits = @ + p.commit_count]
                             ELSE batch_stats
           /\ net' = [net EXCEPT !.reads = @ + (IF fn_in.path = "single" THEN 1 ELSE 0),
                                 !.queries = @ + p.queries, !.ai_calls = @ + p.ai_calls]
           /\ IF p.ai_calls = 0
              THEN AssembleRecorded(Call(fn_in.path, store[1].body, None, None, p))
              ELSE /\ fn_pc' = "in_post"
                   /\ UNCHANGED <<fn_out, store, turn>>
    /\ UNCHANGED <<fn_in, pc, params, mode, all_releases, idx, outcomes, sleeps, result, report>>

\* Lines 1293-1303, or 1507-1527: requests.post returns or raises. The
\* document is generated; when that raises the call ends, otherwise the update
\* is sent and the generator waits in requests.patch (line 902).
AssembleAnswered ==
    /\ fn_pc = "in_post"
    /\ \E response \in AssembleResponses :
        \E p \in {AssembleOutcome(fn_in.path, store[1], fn_in.commits, response, NotAsked.patch,
                                  fn_in.templates)} :
           IF p.write_attempts = 0
           THEN AssembleRecorded(Call(fn_in.path, store[1].body, Some(response), None, p))
                    /\ net' = net
           ELSE /\ net' = [net EXCEPT !.writes = @ + 1]
                /\ turn' = <<response>>
                /\ fn_pc' = "in_patch"
                /\ UNCHANGED <<fn_out, store>>
    /\ UNCHANGED <<fn_in, pc, params, mode, all_releases, idx, batch_stats, outcomes, sleeps,
                   result, report>>

\* Lines 1303-1305, or 1527-1564: requests.patch returns, and the call ends.
AssemblePatched ==
    /\ fn_pc = "in_patch"
    /\ \E patch \in AssemblePatches :
        \E p \in {AssembleOutcome(fn_in.path, store[1], fn_in.commits, turn[1], patch,
                                  fn_in.templates)} :
           AssembleRecorded(Call(fn_in.path, store[1].body, Some(turn[1]), Some(patch), p))
    /\ UNCHANGED <<fn_in, pc, params, mode, all_releases, idx, batch_stats, outcomes, net, sleeps,
                   result, report>>

\* Between two calls the publisher makes the release anew without notes: its
\* body is null again.
RemakeRelease ==
    /\ fn_pc = "ready"
    /\ fn_out # <<>> /\ Len(fn_out) < MaxCalls
    /\ store[1].body # NullBody
    /\ store' = [store EXCEPT ![1].body = NullBody]
    /\ UNCHANGED <<fn_in, fn_out, fn_pc, pc, params, mode, all_releases, idx, turn, batch_stats,
                   outcomes, net, sleeps, result, report>>

NextAssemble == AssembleRelease \/ AssembleAnswered \/ AssemblePatched \/ RemakeRelease

SpecAssemble == InitAssemble /\ [][NextAssemble]_vars

(***************************************************************************)
(* Claims on the documents of the calls.                                   *)
(***************************************************************************)
\* The commit list resolved for the release of the calls.
ResolvedCommits == get_git_commits("v1.1", AssembleGit(fn_in.commits)).commits

\* The listing 'subject (id)' of the commits, in their order.
ListingOf(commits) == [j \in 1..Len(commits) |-> AppendixLine(commits[j])]

\* C18: for the same resolved commit list the appendix of the document is the
\* same listing, an entry 'subject (id)' for each commit in the order of the
\* list, whichever path rendered the document and whatever the body was.
C18_SameAppendix ==
    \A k \in 1..Len(fn_out) :
        fn_out[k].processed.written # None
            => fn_out[k].processed.written[1].appendix = ListingOf(ResolvedCommits)

\* Call l is a run like call k but for the body: the same path, and every
\* service that l asked gave it the answer it gave k.
DiffersOnlyInBody(k, l) ==
    /\ fn_out[l].path = fn_out[k].path
    /\ fn_out[l].response \in {None, fn_out[k].response}
    /\ fn_out[l].patch \in {None, fn_out[k].patch}

\* C19: the document published does not depend on the body the release had:
\* when a run has published a document, a run that differs from it only in
\* that body publishes the same document; and the body is replaced, not
\* merged: after a run that published, the release holds that document alone
\* (until the publisher makes the release anew).
C19_BodyIgnored ==
    /\ \A k \in 1..Len(fn_out) : \A l \in 1..Len(fn_out) :
           fn_out[k].processed.written # None /\ DiffersOnlyInBody(k, l)
               => fn_out[l].processed.written = fn_out[k].processed.written
    /\ /\ fn_pc = "ready" /\ fn_out # <<>>
       /\ fn_out[Len(fn_out)].processed.written # None
       /\ store[1].body # NullBody
       => Some(store[1].body) = fn_out[Len(fn_out)].processed.written

SectionsOf(k) ==
    IF fn_out[k].processed.written = None THEN <<>>
    ELSE fn_out[k].processed.written[1].sections

\* C21: the rule path emits no blank entry: the message of every rendered item
\* is non-empty, for every commit the resolver produces.
C21_NoBlankEntry ==
    \A k \in 1..Len(fn_out) :
        fn_out[k].processed.written # None /\ fn_out[k].processed.written[1].kind = "basic"
            => \A j \in 1..Len(SectionsOf(k)) : \A i \in 1..Len(SectionsOf(k)[j].items) :
                   SectionsOf(k)[j].items[i].message # <<>>

(***************************************************************************)
(* Claims on the sections of the AI path.                                  *)
(***************************************************************************)
\* The call of the analysis gave a result and the AI path rendered a document.
AiRendered ==
    /\ fn_pc = "generated"
    /\ fn_out[1].val # None
    /\ fn_out[2].tag = "return"

\* The categories of the analysis result, a map from tag to items.
AnalysisCategories == fn_out[1].val[1].categories.v

\* The place and the importance, in the analysis result, of the item rendered with this hash.
PlaceOf(items, hash) == MinOf({k \in 1..Len(items) : items[k].hash = hash})
GivenImportance(items, hash) ==
    IF items[PlaceOf(items, hash)].importance = None THEN 1
    ELSE items[PlaceOf(items, hash)].importance[1]

\* C22: in the AI path the items of a section are in non-increasing order of
\* importance, a missing importance counting as 1, and items of equal
\* importance keep the order they have in the analysis result.
C22_SortedByImportanceStable ==
    AiRendered =>
        \A j \in 1..Len(fn_out[2].val.sections) :
            LET section == fn_out[2].val.sections[j]
                given == AnalysisCategories[section.category]
            IN /\ Len(section.items) = Len(given)
               /\ \A a \in 1..Len(section.items) : \A b \in 1..Len(section.items) :
                      a < b =>
                          \/ GivenImportance(given, section.items[a].hash)
                                 > GivenImportance(given, section.items[b].hash)
                          \/ /\ GivenImportance(given, section.items[a].hash)
                                    = GivenImportance(given, section.items[b].hash)
                             /\ PlaceOf(given, section.items[a].hash)
                                    < PlaceOf(given, section.items[b].hash)

\* A section of four items rendered, two of importance 3 before two of importance 1.
C22_Witness ==
    /\ AiRendered
    /\ \E j \in 1..Len(fn_out[2].val.sections) :
           /\ Len(fn_out[2].val.sections[j].items) = 4
           /\ fn_out[2].val.sections[j].items[1].hash = <<"a2">>
           /\ fn_out[2].val.sections[j].items[2].hash = <<"a4">>
           /\ fn_out[2].val.sections[j].items[3].hash = <<"a1">>
           /\ fn_out[2].val.sections[j].items[4].hash = <<"a3">>

\* C30: in the AI path every item of every non-empty category of the analysis
\* result is rendered once in the sections, whatever the tag of the category.
C30_EveryItemRendered ==
    AiRendered =>
        \A t \in DOMAIN AnalysisCategories : \A i \in 1..Len(AnalysisCategories[t]) :
            Cardinality(UNION {{<<j, k>> : k \in {k \in 1..Len(fn_out[2].val.sections[j].items) :
                       fn_out[2].val.sections[j].items[k].hash = AnalysisCategories[t][i].hash}} :
                   j \in 1..Len(fn_out[2].val.sections)}) = 1

(***************************************************************************)
(* Claims on the run: delays, writes, validation, reports, counters.       *)
(***************************************************************************)
\* C23: in a batch of n >= 1 releases the delay is applied once between two
\* consecutive releases and never after the last, whatever the outcomes: while
\* release i is processed and until the wait after it begins, i - 1 delays
\* were made; the wait begins only after a release i < n and is the i-th
\* delay; and n - 1 delays were made when the loop has finished.
C23_DelayBetweenReleases ==
    IsBatch /\ all_releases # <<>> =>
        /\ pc \in {"in_post", "in_patch", "summarized"} =>
               sleeps = idx /\ idx < Len(all_releases)
        /\ pc = "sleeping" => sleeps = idx + 1 /\ idx + 1 < Len(all_releases)
        /\ pc = "processing" /\ idx < Len(all_releases) => sleeps = idx
        /\ idx = Len(all_releases) => sleeps = Len(all_releases) - 1

\* A batch of at least three releases finished, one failed and one succeeded.
C23_Witness ==
    /\ BatchFinished /\ result # None
    /\ Len(all_releases) >= 3
    /\ sleeps = Len(all_releases) - 1
    /\ CountOutcomes({"Failed"}) >= 1
    /\ CountOutcomes({"Succeeded"}) >= 1

\* C24: at most one write is attempted for a release in a run and none is
\* repeated; a write that is refused or fails in transport is returned as
\* false, not raised: the release is recorded without exception message and the
\* writes made are as many as the releases for which one was attempted, the
\* release whose update is awaited included.
C24_SingleWriteAttempt ==
    /\ \A j \in DOMAIN outcomes :
           /\ outcomes[j].processed.write_attempts \in {0, 1}
           /\ outcomes[j].processed.write_attempts = 1 => outcomes[j].processed.error_msg = ""
    /\ net.writes = Cardinality({j \in DOMAIN outcomes : outcomes[j].processed.write_attempts = 1})
                        + (IF pc = "in_patch" THEN 1 ELSE 0)
    /\ net.writes <= Len(outcomes) + (IF pc = "in_patch" THEN 1 ELSE 0)

\* A batch in which the write of one release failed and that of a later one succeeded.
C24_Witness ==
    /\ BatchFinished /\ result # None
    /\ net.writes = 2
    /\ \E i, j \in DOMAIN outcomes :
           /\ i < j
           /\ outcomes[i].processed.write_attempts = 1 /\ ~outcomes[i].processed.success
           /\ outcomes[i].status = "Failed"
           /\ outcomes[j].processed.write_attempts = 1 /\ outcomes[j].processed.success

\* The mode-selection inputs are inconsistent: workflow_call without version or
\* without release id; a manual trigger with none of target, tag and release
\* id; a release id without version.
Inconsistent(p) ==
    \/ p.event_name = "workflow_call" /\ (p.version = None \/ p.release_id = None)
    \/ p.event_name # "workflow_call" /\ p.target = None /\ p.tag = None /\ p.release_id = None
    \/ p.event_name # "workflow_call" /\ p.target = None /\ p.tag = None
           /\ p.release_id # None /\ p.version = None

\* C25: with inconsistent mode-selection inputs the run fails before any
\* network activity: it ends at the validation with False and no read of the
\* release store, no history query, no analysis call and no write was made.
C25_InvalidInputsNoNetwork ==
    Inconsistent(params) =>
        /\ pc \in {"start", "done"}
        /\ pc = "done" => result = Some(FALSE)
        /\ net = ZeroNet
        /\ outcomes = <<>> /\ sleeps = 0

\* The run called by a workflow without release id has ended.
C25_Witness ==
    /\ pc = "done" /\ result = Some(FALSE)
    /\ params.event_name = "workflow_call"
    /\ params.version # None /\ params.release_id = None
    /\ net = ZeroNet

\* C26: every run whose mode was selected emits its final report before it
\* ends, successful or not: the batch summary on every batch run, also when
\* the listing is empty or fails, and the final report of a single-release run
\* also when fetching the release or publishing fails.
C26_RunEndsWithReport ==
    pc = "done" /\ mode # NoSelection => report # <<>>

\* C27: in a batch run, in every state, ai_success_count <= success_count,
\* skipped_count <= success_count + error_count and success_count +
\* error_count <= total_releases; when the loop has finished, success_count +
\* error_count = processed_releases = total_releases.
C27_CounterBounds ==
    IsBatch =>
        /\ batch_stats.ai_success_count <= batch_stats.success_count
        /\ batch_stats.skipped_count <= batch_stats.success_count + batch_stats.error_count
        /\ batch_stats.success_count + batch_stats.error_count <= batch_stats.total_releases
        /\ all_releases # <<>> /\ idx = Len(all_releases) =>
               /\ batch_stats.success_count + batch_stats.error_count
                      = batch_stats.processed_releases
               /\ batch_stats.processed_releases = batch_stats.total_releases
               /\ batch_stats.total_releases = Len(all_releases)

\* A finished batch with a release rendered by the analysis, one whose write
\* failed after the analysis succeeded, one skipped and one failed before it.
C27_Witness ==
    /\ BatchFinished /\ result # None
    /\ batch_stats.ai_success_count >= 1
    /\ batch_stats.skipped_count >= 1
    /\ batch_stats.error_count >= 2
    /\ \E j \in DOMAIN outcomes :
           outcomes[j].processed.ai_success /\ ~outcomes[j].processed.success

\* C28: in the mode of the workflow call (version and release id given) the
\* release written is the one whose id the caller gave, whatever the store
\* holds, also when the release found under the version tag has another id.
C28_WritesSuppliedRelease ==
    mode.mode = "workflow_call" =>
        /\ \A j \in DOMAIN outcomes :
               outcomes[j].processed.write_attempts = 1 => outcomes[j].id = params.release_id[1]
        /\ \A k \in DOMAIN store :
               store[k].body # OldBody => store[k].id = params.release_id[1]

\* C29: the resolver returns at most one commit for each commit of the history
\* queried: the lines of a body of several lines, also those with a pipe
\* character, give no further commit, so that commit_count never exceeds the
\* number of commits of the range.
C29_OneCommitPerHistoryCommit ==
    \A k \in 1..Len(fn_out) : fn_out[k].processed.commit_count <= Len(fn_in.commits)

====
